---- MODULE Spec2Model ----
(***************************************************************************)
(* State-machine model of the openZFS manager backend:                     *)
(*   - services/cmd.py    run_cmd and its admission semaphore              *)
(*   - services/zfs.py    load_key / change_key (direct semaphore users)   *)
(*   - services/zpool.py  iostat_stream, events_stream, kill_iostat_procs  *)
(*   - ws.py              ws_iostat, ws_events, stop_pool_streams          *)
(*   - routes/pools.py    destroy_pool (the destroy sequence)              *)
(*   - exceptions.py      parse_zfs_error                                  *)
(*   - services/zpool.py  parse_status_output, _parse_config_lines         *)
(* Every coroutine is a process whose position is the await it is          *)
(* suspended at; one action runs a coroutine from one await to the next.   *)
(* The pure functions are operators over the text they are given.          *)
(***************************************************************************)
EXTENDS Integers, Sequences, FiniteSets, TLC

\* ------------------------------------------------------------------ bounds
\* run_cmd callers that may be in flight at once (more than the slot count)
NumCallers == 5
\* cancellations the environment delivers in one behaviour
MaxCancels == 1

\* --------------------------------------------------------- program constants
\* asyncio.Semaphore(4)
SEM_SLOTS == 4

VARIABLES
    zfs_semaphore,  \* free slots of cmd._zfs_semaphore
    callPc,         \* position of each short call
    orphanCmd,      \* subprocesses of cancelled run_cmd calls that still run
    orphanKey,      \* the same for load_key / change_key
    cancels,        \* cancellations delivered so far
    lastRet,        \* what the call that ended last returned or raised
    \* --- ws.py / zpool.py registries
    iostat_procs,       \* zpool._iostat_procs: pool -> set of subprocesses
    active_ws,          \* ws._active_ws: pool -> set of WebSockets
    destroying_pools,   \* ws._destroying_pools
    iostat_history,     \* ws._iostat_history: pool -> deque of samples
    \* --- one ws_iostat handler per WebSocket
    wsPc,           \* the await the handler is suspended at
    wsPool,         \* its pool query parameter
    wsChan,         \* state of its channel (open, or how it was closed)
    gen,            \* state of its iostat_stream generator
    proc,           \* state of the subprocess its generator spawned
    arrivedMarked,  \* history: the pool was marked when the handler started
    nsamples,       \* samples yielded so far
    \* --- the destroy_pool route (routes/pools.py)
    dPc,            \* the await the destroy sequence is suspended at
    dPool,          \* the pool it destroys
    dWs,            \* stop_pool_streams: WebSockets still to close
    dProcs,         \* kill_iostat_procs: processes still to wait for
    dAttempt,       \* loop variable of the retry loop (0, 1, 2)
    dLastErr,       \* last_err: 0 for None, k for the error of attempt k
    dResult,        \* how the route ended: "none", "rejected", "success", "raised"
    dRaised,        \* the error the route raised (k: that of attempt k)
    dLog,           \* history: outcome of every destroy attempt, in order
    dDelays,        \* history: the back-off delays slept, in order
    dCleanup,       \* history: how the tolerated steps went so far
    dRuns,          \* destroy requests so far
    killProcs,      \* history: processes tracked when stop_pool_streams was called
    killWs,         \* history: WebSockets registered when it was called
    \* --- one ws_events handler per WebSocket
    evPc,           \* the await the handler is suspended at
    evChan,         \* state of its channel
    evGen,          \* state of its events_stream generator
    evProc,         \* state of the zpool events subprocess it spawned
    \* --- inputs and results of the pure functions
    clsErr,         \* stderr handed to parse_zfs_error, as its characters
    clsRc,          \* returncode handed to parse_zfs_error
    clsOut,         \* the exception parse_zfs_error returned
    raw,            \* text handed to parse_status_output, as its tokens
    lineNo,         \* lines of raw the loop of parse_status_output has consumed
    section,        \* its current section
    config_lines,   \* the lines it has buffered for _parse_config_lines
    result,         \* its result dict
    statusPc        \* "idle", "loop" (lines 150-182) or "done" (after line 185)

cmdOnlyVars == <<zfs_semaphore, callPc, orphanCmd, orphanKey, lastRet>>

streamVars == <<iostat_procs, active_ws, destroying_pools, iostat_history,
                wsPc, wsPool, wsChan, gen, proc, arrivedMarked, nsamples>>

destroyVars == <<dPc, dPool, dWs, dProcs, dAttempt, dLastErr, dResult, dRaised,
                 dLog, dDelays, dCleanup, dRuns, killProcs, killWs>>

eventVars == <<evPc, evChan, evGen, evProc>>

statusVars == <<raw, lineNo, section, config_lines, result, statusPc>>

pureVars == <<clsErr, clsRc, clsOut, statusVars>>

\* ------------------------------------------------------------ short calls
\* Caller 0 is a load_key / change_key call with a passphrase: it takes the
\* semaphore itself and spawns its own subprocess; callers 1.. use run_cmd.
KeyCaller == 0
Callers == 1..NumCallers
AllCallers == {KeyCaller} \cup Callers

NoRet == [kind |-> "none"]
Returned(c, out, err, rc) == [kind |-> "return", who |-> c, stdout |-> out, stderr |-> err, rc |-> rc]
Raised(c, what) == [kind |-> "raise", who |-> c, exc |-> what]

\* async with _zfs_semaphore: __aexit__ gives the slot back
SemRelease(s) == s + 1

\* async with _zfs_semaphore: __aenter__ takes a slot
SemAcquire(s) == s - 1

InitCmd ==
    /\ zfs_semaphore = SEM_SLOTS
    /\ callPc = [c \in AllCallers |-> "idle"]
    /\ orphanCmd = 0
    /\ orphanKey = 0
    /\ cancels = 0
    /\ lastRet = NoRet

\* run_cmd is called: a free slot is taken at once, otherwise the caller
\* queues on the semaphore.
CmdEnter(c) ==
    /\ callPc[c] = "idle"
    /\ IF zfs_semaphore > 0
       THEN /\ zfs_semaphore' = SemAcquire(zfs_semaphore)
            /\ callPc' = [callPc EXCEPT ![c] = "spawn"]
       ELSE /\ callPc' = [callPc EXCEPT ![c] = "wait"]
            /\ UNCHANGED zfs_semaphore
    /\ UNCHANGED <<orphanCmd, orphanKey, cancels, lastRet>>
    /\ UNCHANGED <<streamVars, destroyVars, eventVars, pureVars>>

\* a queued caller is woken once a slot is free
CmdWake(c) ==
    /\ callPc[c] = "wait"
    /\ zfs_semaphore > 0
    /\ zfs_semaphore' = SemAcquire(zfs_semaphore)
    /\ callPc' = [callPc EXCEPT ![c] = "spawn"]
    /\ UNCHANGED <<orphanCmd, orphanKey, cancels, lastRet>>
    /\ UNCHANGED <<streamVars, destroyVars, eventVars, pureVars>>

\* create_subprocess_exec succeeded: the caller now awaits communicate()
CmdSpawnOk(c) ==
    /\ callPc[c] = "spawn"
    /\ callPc' = [callPc EXCEPT ![c] = "communicate"]
    /\ UNCHANGED <<zfs_semaphore, orphanCmd, orphanKey, cancels, lastRet>>
    /\ UNCHANGED <<streamVars, destroyVars, eventVars, pureVars>>

\* cmd[0] of the call: the two tools, by caller
Binary(c) == IF c % 2 = 0 THEN "zpool" ELSE "zfs"

\* f"{binary}: command not found", as its parts
NotFoundStderr(binary) == <<binary, ": command not found">>

\* mutant: FileNotFoundError is not caught by run_cmd
NotFoundRaises(c) == Raised(c, "FileNotFoundError")

\* what a call gives back when its executable does not exist: run_cmd
\* catches FileNotFoundError and returns a synthetic result, load_key and
\* change_key let it propagate
NotFoundResult(c) ==
    IF c = KeyCaller
    THEN Raised(c, "FileNotFoundError")
    ELSE Returned(c, "", NotFoundStderr(Binary(c)), 127)

\* create_subprocess_exec raised FileNotFoundError
CmdSpawnNotFound(c) ==
    /\ callPc[c] = "spawn"
    /\ callPc' = [callPc EXCEPT ![c] = "idle"]
    /\ zfs_semaphore' = SemRelease(zfs_semaphore)
    /\ lastRet' = NotFoundResult(c)
    /\ UNCHANGED <<orphanCmd, orphanKey, cancels>>
    /\ UNCHANGED <<streamVars, destroyVars, eventVars, pureVars>>

\* create_subprocess_exec raised another exception (PermissionError, another
\* OSError): no except clause matches, it leaves the async with, which
\* releases the slot, and reaches the caller
CmdSpawnError(c) ==
    /\ callPc[c] = "spawn"
    /\ callPc' = [callPc EXCEPT ![c] = "idle"]
    /\ zfs_semaphore' = SemRelease(zfs_semaphore)
    /\ lastRet' = Raised(c, "OSError")
    /\ UNCHANGED <<orphanCmd, orphanKey, cancels>>
    /\ UNCHANGED <<streamVars, destroyVars, eventVars, pureVars>>

\* what a call gives back once its subprocess has exited with rc
ExitResult(c, rc) ==
    IF c = KeyCaller /\ rc # 0
    THEN Raised(c, "ZFSError")
    ELSE Returned(c, "out", IF rc = 0 THEN "" ELSE "err", rc)

\* the subprocess exited: communicate() returns, the slot is released
CmdFinish(c, rc) ==
    /\ callPc[c] = "communicate"
    /\ callPc' = [callPc EXCEPT ![c] = "idle"]
    /\ zfs_semaphore' = SemRelease(zfs_semaphore)
    /\ lastRet' = ExitResult(c, rc)
    /\ UNCHANGED <<orphanCmd, orphanKey, cancels>>
    /\ UNCHANGED <<streamVars, destroyVars, eventVars, pureVars>>

\* mutant: a cancelled call keeps its slot
CmdCancelKeepsSlot(c) ==
    /\ callPc[c] \in {"wait", "spawn", "communicate"}
    /\ cancels < MaxCancels
    /\ cancels' = cancels + 1
    /\ callPc' = [callPc EXCEPT ![c] = "idle"]
    /\ zfs_semaphore' = zfs_semaphore
    /\ orphanCmd' = IF callPc[c] = "communicate" /\ c # KeyCaller THEN orphanCmd + 1 ELSE orphanCmd
    /\ orphanKey' = IF callPc[c] = "communicate" /\ c = KeyCaller THEN orphanKey + 1 ELSE orphanKey
    /\ lastRet' = Raised(c, "CancelledError")
    /\ UNCHANGED <<streamVars, destroyVars, eventVars, pureVars>>

\* The task of the call is cancelled at the await it is suspended at.  The
\* async with releases a held slot; nothing kills a subprocess that was
\* already started, so it keeps running without a slot.
CmdCancel(c) ==
    /\ callPc[c] \in {"wait", "spawn", "communicate"}
    /\ cancels < MaxCancels
    /\ cancels' = cancels + 1
    /\ callPc' = [callPc EXCEPT ![c] = "idle"]
    /\ zfs_semaphore' = IF callPc[c] = "wait" THEN zfs_semaphore ELSE SemRelease(zfs_semaphore)
    /\ orphanCmd' = IF callPc[c] = "communicate" /\ c # KeyCaller THEN orphanCmd + 1 ELSE orphanCmd
    /\ orphanKey' = IF callPc[c] = "communicate" /\ c = KeyCaller THEN orphanKey + 1 ELSE orphanKey
    /\ lastRet' = Raised(c, "CancelledError")
    /\ UNCHANGED <<streamVars, destroyVars, eventVars, pureVars>>

\* a subprocess left behind by a cancelled call exits
CmdOrphanExit ==
    /\ \/ orphanCmd > 0 /\ orphanCmd' = orphanCmd - 1 /\ UNCHANGED orphanKey
       \/ orphanKey > 0 /\ orphanKey' = orphanKey - 1 /\ UNCHANGED orphanCmd
    /\ UNCHANGED <<zfs_semaphore, callPc, cancels, lastRet>>
    /\ UNCHANGED <<streamVars, destroyVars, eventVars, pureVars>>

\* subprocesses started by run_cmd that are running
RunCmdProcs == Cardinality({c \in Callers : callPc[c] = "communicate"}) + orphanCmd

\* calls that hold a slot
SlotHolders == {c \in AllCallers : callPc[c] \in {"spawn", "communicate"}}


\* ------------------------------------------------------------ validation
Letter == {"a", "b", "c", "f", "k", "n", "p", "t", "u"}
Digit == {"0", "1"}
\* the characters a pool name may hold after its first
PoolNameChar == Letter \cup Digit \cup {"_", ".", "-"}

\* _POOL_NAME_RE.match(name): ^[a-zA-Z][a-zA-Z0-9_.\-]*$ on the name as its
\* sequence of characters; $ also matches before a newline that ends it
PoolNameMatch(name) ==
    LET body == IF Len(name) > 0 /\ name[Len(name)] = "\n"
                THEN SubSeq(name, 1, Len(name) - 1)
                ELSE name
    IN  /\ Len(body) > 0
        /\ body[1] \in Letter
        /\ \A i \in 2..Len(body) : body[i] \in PoolNameChar

\* validate_pool_name(name) returns (TRUE) or raises ValidationError (FALSE)
validate_pool_name(name) == Len(name) > 0 /\ PoolNameMatch(name)

\* names a request may carry in its {pool} path parameter that are not pool
\* names
BadNames == {"-f", ".*"}

\* a name as its sequence of characters
Spelling(p) ==
    CASE p = "tank" -> <<"t", "a", "n", "k">>
      [] p = "backup" -> <<"b", "a", "c", "k", "u", "p">>
      [] p = "-f" -> <<"-", "f">>
      [] p = ".*" -> <<".", "*">>
      [] OTHER -> <<>>

\* ------------------------------------------------------------ registries
\* bound: WebSocket connections to /api/ws/iostat in one behaviour
NumWs == 2
\* bound: samples the iostat subprocesses produce in one behaviour
MaxSamples == 1

\* deque(maxlen=MAX_HISTORY)
MAX_HISTORY == 300

Pools == {"tank", "backup"}
\* the pool query parameter left out
NoPool == ""
W == 1..NumWs

\* mutant: the pop empties the whole dict
DictPopAll(d, k) == <<>>

\* mutant: the value is looked up and the key stays in the dict
DictPopKeeps(d, k) == d

\* d.pop(k, default): the dict without key k
DictPop(d, k) == [q \in (DOMAIN d) \ {k} |-> d[q]]

\* d.get(k, default)
DictGet(d, k, default) == IF k \in DOMAIN d THEN d[k] ELSE default

\* d.setdefault(k, set()).add(x); also: if k not in d: d[k] = set(); d[k].add(x)
SetDefaultAdd(d, k, x) ==
    [q \in (DOMAIN d) \cup {k} |-> IF q = k THEN DictGet(d, k, {}) \cup {x} ELSE d[q]]

\* mutant: the whole entry of the key is dropped instead of one member
GetDiscardAll(d, k, x) == [q \in (DOMAIN d) \ {k} |-> d[q]]

\* d.get(k, set()).discard(x): a missing key stays missing, an emptied set stays
GetDiscard(d, k, x) ==
    IF k \in DOMAIN d THEN [d EXCEPT ![k] = @ \ {x}] ELSE d

\* mutant: a full deque refuses the new entry instead of dropping its oldest
DequeAppendDropNewest(q, x) ==
    IF Len(q) >= MAX_HISTORY THEN q ELSE Append(q, x)

\* deque.append on a deque(maxlen=MAX_HISTORY): the oldest entry is dropped
\* once the deque is full
DequeAppend(q, x) ==
    IF Len(q) >= MAX_HISTORY THEN Append(Tail(q), x) ELSE Append(q, x)

\* _iostat_history[pool].append(sample), creating the deque on first use
HistoryAppend(h, p, x) ==
    [q \in (DOMAIN h) \cup {p} |-> IF q = p THEN DequeAppend(DictGet(h, p, <<>>), x) ELSE h[q]]

\* mutant: the being-destroyed check is missing
IsDestroyingNever(p) == FALSE

\* if pool in _destroying_pools
IsDestroying(p) == p \in destroying_pools

\* ws.close(code=1000, reason="Pool is being destroyed"): raises on a channel
\* that is no longer open, and leaves it as it was
CloseTeardown(ch) == IF ch = "open" THEN "teardown" ELSE ch

\* ws.close(code=1011, reason=str(e)), inside try / except Exception: pass
Close1011(ch) == IF ch = "open" THEN "c1011" ELSE ch

\* proc.kill(): SIGKILL to a running process; ProcessLookupError (caught) on
\* one that is gone
Kill(st) == IF st = "running" THEN "signalled" ELSE st

\* the finally of iostat_stream up to its await proc.wait(): the generator is
\* done at once when the process has exited already
GenAfterKill(st) == IF st = "exited" THEN "closed" ELSE "waiting"

InitStream ==
    /\ iostat_procs = <<>>
    /\ active_ws = <<>>
    /\ destroying_pools = {}
    /\ iostat_history = <<>>
    /\ wsPc = [w \in W |-> "idle"]
    /\ wsPool = [w \in W |-> NoPool]
    /\ wsChan = [w \in W |-> "none"]
    /\ gen = [w \in W |-> "none"]
    /\ proc = [w \in W |-> "none"]
    /\ arrivedMarked = [w \in W |-> FALSE]
    /\ nsamples = 0

\* ------------------------------------------------------------ ws_iostat
\* ws_iostat starts: a missing pool parameter is refused with 1008, otherwise
\* the connection is accepted and the session looked up
WsConnect(w, p) ==
    /\ wsPc[w] = "idle"
    /\ IF p = NoPool
       THEN /\ wsPc' = [wsPc EXCEPT ![w] = "done"]
            /\ wsChan' = [wsChan EXCEPT ![w] = "c1008"]
            /\ UNCHANGED <<wsPool, arrivedMarked>>
       ELSE /\ wsPc' = [wsPc EXCEPT ![w] = "auth"]
            /\ wsChan' = [wsChan EXCEPT ![w] = "open"]
            /\ wsPool' = [wsPool EXCEPT ![w] = p]
            /\ arrivedMarked' = [arrivedMarked EXCEPT ![w] = p \in destroying_pools]
    /\ UNCHANGED <<iostat_procs, active_ws, destroying_pools, iostat_history, gen, proc, nsamples, cancels>>
    /\ UNCHANGED <<cmdOnlyVars, destroyVars, eventVars, pureVars>>

\* _ws_authenticate returned.  Without a session the channel is closed with
\* 4001; a pool that is being destroyed is refused with the teardown reason;
\* otherwise the WebSocket is registered and iostat_stream starts spawning.
WsAuth(w, ok) ==
    /\ wsPc[w] = "auth"
    /\ IF ~ok
       THEN /\ wsPc' = [wsPc EXCEPT ![w] = "done"]
            /\ wsChan' = [wsChan EXCEPT ![w] = "c4001"]
            /\ UNCHANGED <<active_ws, gen>>
       ELSE IF IsDestroying(wsPool[w])
       THEN /\ wsPc' = [wsPc EXCEPT ![w] = "done"]
            /\ wsChan' = [wsChan EXCEPT ![w] = CloseTeardown(@)]
            /\ UNCHANGED <<active_ws, gen>>
       ELSE /\ wsPc' = [wsPc EXCEPT ![w] = "spawning"]
            /\ active_ws' = SetDefaultAdd(active_ws, wsPool[w], w)
            /\ gen' = [gen EXCEPT ![w] = "live"]
            /\ UNCHANGED wsChan
    /\ UNCHANGED <<iostat_procs, destroying_pools, iostat_history, wsPool, proc, arrivedMarked, nsamples, cancels>>
    /\ UNCHANGED <<cmdOnlyVars, destroyVars, eventVars, pureVars>>

\* mutant: the stream takes an admission slot for its subprocess
WsSpawnTakesSlot(w) ==
    /\ wsPc[w] = "spawning"
    /\ zfs_semaphore > 0
    /\ zfs_semaphore' = zfs_semaphore - 1
    /\ proc' = [proc EXCEPT ![w] = "running"]
    /\ iostat_procs' = [q \in (DOMAIN iostat_procs) \cup {wsPool[w]} |->
                          IF q = wsPool[w]
                          THEN (IF q \in DOMAIN iostat_procs THEN iostat_procs[q] ELSE {}) \cup {w}
                          ELSE iostat_procs[q]]
    /\ wsPc' = [wsPc EXCEPT ![w] = "reading"]
    /\ UNCHANGED <<active_ws, destroying_pools, iostat_history, wsPool, wsChan, gen, arrivedMarked, nsamples, cancels>>
    /\ UNCHANGED <<callPc, orphanCmd, orphanKey, lastRet>>
    /\ UNCHANGED <<destroyVars, eventVars, pureVars>>

\* mutant: only the first subscriber of a pool spawns a process, later ones
\* share it
WsSpawnShared(w) ==
    /\ wsPc[w] = "spawning"
    /\ IF \E v \in W \ {w} : wsPool[v] = wsPool[w] /\ proc[v] = "running"
       THEN UNCHANGED <<proc, iostat_procs>>
       ELSE /\ proc' = [proc EXCEPT ![w] = "running"]
            /\ iostat_procs' = [q \in (DOMAIN iostat_procs) \cup {wsPool[w]} |->
                                  IF q = wsPool[w]
                                  THEN (IF q \in DOMAIN iostat_procs THEN iostat_procs[q] ELSE {}) \cup {w}
                                  ELSE iostat_procs[q]]
    /\ wsPc' = [wsPc EXCEPT ![w] = "reading"]
    /\ UNCHANGED <<active_ws, destroying_pools, iostat_history, wsPool, wsChan, gen, arrivedMarked, nsamples, cancels>>
    /\ UNCHANGED <<cmdOnlyVars, destroyVars, eventVars, pureVars>>

\* create_subprocess_exec("zpool", "iostat", ...) returned: the process is
\* registered and the generator reads its stdout
WsSpawnOk(w) ==
    /\ wsPc[w] = "spawning"
    /\ proc' = [proc EXCEPT ![w] = "running"]
    /\ iostat_procs' = SetDefaultAdd(iostat_procs, wsPool[w], w)
    /\ wsPc' = [wsPc EXCEPT ![w] = "reading"]
    /\ UNCHANGED <<active_ws, destroying_pools, iostat_history, wsPool, wsChan, gen, arrivedMarked, nsamples, cancels>>
    /\ UNCHANGED <<cmdOnlyVars, destroyVars, eventVars, pureVars>>

\* FileNotFoundError: the generator returns, the loop of ws_iostat ends and
\* its finally unregisters the WebSocket
WsSpawnNotFound(w) ==
    /\ wsPc[w] = "spawning"
    /\ gen' = [gen EXCEPT ![w] = "closed"]
    /\ active_ws' = GetDiscard(active_ws, wsPool[w], w)
    /\ wsPc' = [wsPc EXCEPT ![w] = "done"]
    /\ UNCHANGED <<iostat_procs, destroying_pools, iostat_history, wsPool, wsChan, proc, arrivedMarked, nsamples, cancels>>
    /\ UNCHANGED <<cmdOnlyVars, destroyVars, eventVars, pureVars>>

\* any other exception of the spawn: except Exception closes with 1011
WsSpawnError(w) ==
    /\ wsPc[w] = "spawning"
    /\ gen' = [gen EXCEPT ![w] = "closed"]
    /\ wsChan' = [wsChan EXCEPT ![w] = Close1011(@)]
    /\ wsPc' = [wsPc EXCEPT ![w] = "closing"]
    /\ UNCHANGED <<iostat_procs, active_ws, destroying_pools, iostat_history, wsPool, proc, arrivedMarked, nsamples, cancels>>
    /\ UNCHANGED <<cmdOnlyVars, destroyVars, eventVars, pureVars>>

\* the generator yields a sample (a data line after the first report): it
\* is stored in the history and sent
WsReadLine(w) ==
    /\ wsPc[w] = "reading"
    /\ proc[w] = "running"
    /\ nsamples < MaxSamples
    /\ nsamples' = nsamples + 1
    /\ iostat_history' = HistoryAppend(iostat_history, wsPool[w], [pool |-> wsPool[w], n |-> nsamples + 1])
    /\ wsPc' = [wsPc EXCEPT ![w] = "sending"]
    /\ UNCHANGED <<iostat_procs, active_ws, destroying_pools, wsPool, wsChan, gen, proc, arrivedMarked, cancels>>
    /\ UNCHANGED <<cmdOnlyVars, destroyVars, eventVars, pureVars>>

\* end of the subprocess's stdout: the finally of iostat_stream unregisters
\* the process (kill finds it gone, wait returns at once), the loop of
\* ws_iostat ends and its finally unregisters the WebSocket
WsReadEOF(w) ==
    /\ wsPc[w] = "reading"
    /\ proc[w] = "exited"
    /\ iostat_procs' = GetDiscard(iostat_procs, wsPool[w], w)
    /\ gen' = [gen EXCEPT ![w] = "closed"]
    /\ active_ws' = GetDiscard(active_ws, wsPool[w], w)
    /\ wsPc' = [wsPc EXCEPT ![w] = "done"]
    /\ UNCHANGED <<destroying_pools, iostat_history, wsPool, wsChan, proc, arrivedMarked, nsamples, cancels>>
    /\ UNCHANGED <<cmdOnlyVars, destroyVars, eventVars, pureVars>>

\* send_json succeeded: the generator is resumed and reads on
WsSendOk(w) ==
    /\ wsPc[w] = "sending"
    /\ wsChan[w] = "open"
    /\ wsPc' = [wsPc EXCEPT ![w] = "reading"]
    /\ UNCHANGED <<iostat_procs, active_ws, destroying_pools, iostat_history, wsPool, wsChan, gen, proc, arrivedMarked, nsamples, cancels>>
    /\ UNCHANGED <<cmdOnlyVars, destroyVars, eventVars, pureVars>>

\* send_json raised WebSocketDisconnect (the client is gone): the finally
\* unregisters the WebSocket; the generator, suspended at its yield, is left
\* to the event loop's finalizer
WsSendDisconnect(w) ==
    /\ wsPc[w] = "sending"
    /\ wsChan[w] \in {"open", "gone"}
    /\ wsChan' = [wsChan EXCEPT ![w] = "gone"]
    /\ active_ws' = GetDiscard(active_ws, wsPool[w], w)
    /\ gen' = [gen EXCEPT ![w] = "orphan"]
    /\ wsPc' = [wsPc EXCEPT ![w] = "done"]
    /\ UNCHANGED <<iostat_procs, destroying_pools, iostat_history, wsPool, proc, arrivedMarked, nsamples, cancels>>
    /\ UNCHANGED <<cmdOnlyVars, destroyVars, eventVars, pureVars>>

\* send_json raised another exception (a send error, or the channel was
\* closed under the handler): except Exception closes with 1011
WsSendError(w) ==
    /\ wsPc[w] = "sending"
    /\ wsChan[w] \in {"open", "teardown"}
    /\ wsChan' = [wsChan EXCEPT ![w] = Close1011(@)]
    /\ gen' = [gen EXCEPT ![w] = "orphan"]
    /\ wsPc' = [wsPc EXCEPT ![w] = "closing"]
    /\ UNCHANGED <<iostat_procs, active_ws, destroying_pools, iostat_history, wsPool, proc, arrivedMarked, nsamples, cancels>>
    /\ UNCHANGED <<cmdOnlyVars, destroyVars, eventVars, pureVars>>

\* ws.close(1011) returned or raised: finally unregisters the WebSocket
WsCloseDone(w) ==
    /\ wsPc[w] = "closing"
    /\ active_ws' = GetDiscard(active_ws, wsPool[w], w)
    /\ wsPc' = [wsPc EXCEPT ![w] = "done"]
    /\ UNCHANGED <<iostat_procs, destroying_pools, iostat_history, wsPool, wsChan, gen, proc, arrivedMarked, nsamples, cancels>>
    /\ UNCHANGED <<cmdOnlyVars, destroyVars, eventVars, pureVars>>

\* the event loop finalizes a generator left at its yield (aclose): its
\* finally unregisters the process, kills it and awaits its exit
GenFinalize(w) ==
    /\ gen[w] = "orphan"
    /\ iostat_procs' = GetDiscard(iostat_procs, wsPool[w], w)
    /\ proc' = [proc EXCEPT ![w] = Kill(@)]
    /\ gen' = [gen EXCEPT ![w] = GenAfterKill(proc[w])]
    /\ UNCHANGED <<active_ws, destroying_pools, iostat_history, wsPc, wsPool, wsChan, arrivedMarked, nsamples, cancels>>
    /\ UNCHANGED <<cmdOnlyVars, destroyVars, eventVars, pureVars>>

\* await proc.wait() in the finally of iostat_stream returned.  When the
\* handler itself is inside that finally (it was cancelled while reading),
\* the CancelledError goes on into ws_iostat, whose finally unregisters the
\* WebSocket.
GenWaitDone(w) ==
    /\ gen[w] = "waiting"
    /\ proc[w] = "exited"
    /\ gen' = [gen EXCEPT ![w] = "closed"]
    /\ IF wsPc[w] = "genwait"
       THEN /\ active_ws' = GetDiscard(active_ws, wsPool[w], w)
            /\ wsPc' = [wsPc EXCEPT ![w] = "done"]
       ELSE UNCHANGED <<active_ws, wsPc>>
    /\ UNCHANGED <<iostat_procs, destroying_pools, iostat_history, wsPool, wsChan, proc, arrivedMarked, nsamples, cancels>>
    /\ UNCHANGED <<cmdOnlyVars, destroyVars, eventVars, pureVars>>

\* the handler's task is cancelled at the await it is suspended at
WsCancel(w) ==
    /\ wsPc[w] \in {"spawning", "reading", "sending"}
    /\ cancels < MaxCancels
    /\ cancels' = cancels + 1
    /\ CASE wsPc[w] = "spawning" ->
              /\ gen' = [gen EXCEPT ![w] = "closed"]
              /\ active_ws' = GetDiscard(active_ws, wsPool[w], w)
              /\ wsPc' = [wsPc EXCEPT ![w] = "done"]
              /\ UNCHANGED <<iostat_procs, proc>>
         [] wsPc[w] = "reading" ->
              /\ iostat_procs' = GetDiscard(iostat_procs, wsPool[w], w)
              /\ proc' = [proc EXCEPT ![w] = Kill(@)]
              /\ gen' = [gen EXCEPT ![w] = GenAfterKill(proc[w])]
              /\ IF proc[w] = "exited"
                 THEN /\ active_ws' = GetDiscard(active_ws, wsPool[w], w)
                      /\ wsPc' = [wsPc EXCEPT ![w] = "done"]
                 ELSE /\ wsPc' = [wsPc EXCEPT ![w] = "genwait"]
                      /\ UNCHANGED active_ws
         [] wsPc[w] = "sending" ->
              /\ gen' = [gen EXCEPT ![w] = "orphan"]
              /\ active_ws' = GetDiscard(active_ws, wsPool[w], w)
              /\ wsPc' = [wsPc EXCEPT ![w] = "done"]
              /\ UNCHANGED <<iostat_procs, proc>>
    /\ UNCHANGED <<destroying_pools, iostat_history, wsPool, wsChan, arrivedMarked, nsamples>>
    /\ UNCHANGED <<cmdOnlyVars, destroyVars, eventVars, pureVars>>

\* a zpool iostat process exits: on its own, or after a signal
ProcExit(w) ==
    /\ proc[w] \in {"running", "signalled"}
    /\ proc' = [proc EXCEPT ![w] = "exited"]
    /\ UNCHANGED <<iostat_procs, active_ws, destroying_pools, iostat_history, wsPc, wsPool, wsChan, gen, arrivedMarked, nsamples, cancels>>
    /\ UNCHANGED <<cmdOnlyVars, destroyVars, eventVars, pureVars>>

NextWs ==
    \/ \E w \in W, p \in Pools \cup {NoPool} : WsConnect(w, p)
    \/ \E w \in W, ok \in BOOLEAN : WsAuth(w, ok)
    \/ \E w \in W : WsSpawnOk(w)
    \/ \E w \in W : WsSpawnNotFound(w)
    \/ \E w \in W : WsSpawnError(w)
    \/ \E w \in W : WsReadLine(w)
    \/ \E w \in W : WsReadEOF(w)
    \/ \E w \in W : WsSendOk(w)
    \/ \E w \in W : WsSendDisconnect(w)
    \/ \E w \in W : WsSendError(w)
    \/ \E w \in W : WsCloseDone(w)
    \/ \E w \in W : GenFinalize(w)
    \/ \E w \in W : GenWaitDone(w)
    \/ \E w \in W : WsCancel(w)
    \/ \E w \in W : ProcExit(w)


\* ------------------------------------------------------ destroy sequence
\* bound: destroy requests in one behaviour
MaxDestroys == 1

\* for attempt in range(3)
DESTROY_ATTEMPTS == 3
\* delay = attempt * 3
BACKOFF_UNIT == 3

InitDestroy ==
    /\ dPc = "idle"
    /\ dPool = NoPool
    /\ dWs = {}
    /\ dProcs = {}
    /\ dAttempt = 0
    /\ dLastErr = 0
    /\ dResult = "none"
    /\ dRaised = 0
    /\ dLog = <<>>
    /\ dDelays = <<>>
    /\ dCleanup = "none"
    /\ dRuns = 0
    /\ killProcs = {}
    /\ killWs = {}

\* history of the tolerated steps: every one so far succeeded, every one
\* failed, or some of each
Note(c, failed) ==
    CASE c = "none" -> IF failed THEN "all_failed" ELSE "all_ok"
      [] c = "all_ok" -> IF failed THEN "mixed" ELSE "all_ok"
      [] c = "all_failed" -> IF failed THEN "all_failed" ELSE "mixed"
      [] OTHER -> "mixed"

\* the processes a pkill -9 -f "zpool iostat.*<pool>" reaches
Matched(p) == {w \in W : wsPool[w] = p /\ proc[w] = "running"}

\* kill_iostat_procs(pool) up to its first suspension: the tracked set is
\* detached from the registry and every process in it is sent SIGKILL; the
\* coroutine then awaits the exit of those that have not exited yet.  With
\* nothing to wait for it returns at once, stop_pool_streams returns and
\* the route goes on to its first pkill.
KillIostatProcs(p, c) ==
    LET procs == DictGet(iostat_procs, p, {})
        killed == [w \in W |-> IF w \in procs THEN Kill(proc[w]) ELSE proc[w]]
        pending == {w \in procs : killed[w] # "exited"}
        c2 == IF procs = {} THEN c ELSE Note(c, \E w \in procs : proc[w] = "exited")
    IN  /\ iostat_procs' = DictPop(iostat_procs, p)
        /\ proc' = killed
        /\ dProcs' = pending
        /\ dCleanup' = c2
        /\ dPc' = IF pending = {} THEN "pkill1" ELSE "proc_wait"

\* The close loop of stop_pool_streams, from where it stands to its next
\* suspension.  ws.close on a WebSocket that is closed already raises at
\* once, the exception is swallowed and the loop goes on without yielding;
\* ws.close on an open one sends the close frame with the teardown reason and
\* may suspend.  Once no open WebSocket is left kill_iostat_procs follows
\* without a yield.
CloseLoop(p, S, c) ==
    LET open == {x \in S : wsChan[x] = "open"}
        c1 == IF S \ open # {} THEN Note(c, TRUE) ELSE c
    IN  IF open # {}
        THEN \E x \in open :
               /\ wsChan' = [wsChan EXCEPT ![x] = CloseTeardown(@)]
               /\ dCleanup' = Note(c1, FALSE)
               /\ dWs' = open \ {x}
               /\ dPc' = "ws_close"
               /\ UNCHANGED <<iostat_procs, proc, dProcs>>
        ELSE /\ KillIostatProcs(p, c1)
             /\ UNCHANGED <<wsChan, dWs>>

\* DELETE /api/pools/{pool}.  A confirmation that does not match is refused
\* with 400.  Otherwise stop_pool_streams starts: the pool is marked, its
\* WebSocket set is detached from the registry and the close loop runs to
\* its first suspension.
DestroyStart(p, confirmOk, limit) ==
    /\ dPc = "idle"
    /\ dRuns < limit
    /\ dRuns' = dRuns + 1
    /\ dLog' = <<>>
    /\ dDelays' = <<>>
    /\ dAttempt' = 0
    /\ dLastErr' = 0
    /\ dRaised' = 0
    /\ IF ~confirmOk
       THEN /\ dResult' = "rejected"
            /\ dCleanup' = "none"
            /\ UNCHANGED <<dPc, dPool, dWs, dProcs, killProcs, killWs, destroying_pools,
                           active_ws, iostat_procs, proc, wsChan>>
       ELSE /\ dResult' = "none"
            /\ dPool' = p
            /\ destroying_pools' = destroying_pools \cup {p}
            /\ active_ws' = DictPop(active_ws, p)
            /\ killWs' = DictGet(active_ws, p, {})
            /\ killProcs' = DictGet(iostat_procs, p, {})
            /\ CloseLoop(p, DictGet(active_ws, p, {}), "none")
    /\ UNCHANGED <<iostat_history, wsPc, wsPool, gen, arrivedMarked, nsamples, cancels>>
    /\ UNCHANGED <<cmdOnlyVars, eventVars, pureVars>>

DestroyCall(p, confirmOk) == DestroyStart(p, confirmOk, MaxDestroys)

\* stop_pool_streams: the awaited ws.close returned (or raised, which is
\* swallowed); the close loop goes on
StopCloseNext ==
    /\ dPc = "ws_close"
    /\ CloseLoop(dPool, dWs, dCleanup)
    /\ UNCHANGED <<active_ws, destroying_pools, iostat_history, wsPc, wsPool, gen, arrivedMarked,
                   nsamples, cancels, dPool, dAttempt, dLastErr, dResult, dRaised, dLog, dDelays,
                   dRuns, killProcs, killWs>>
    /\ UNCHANGED <<cmdOnlyVars, eventVars, pureVars>>

\* kill_iostat_procs: every awaited process has exited; stop_pool_streams
\* returns and the route spawns its first pkill
KillWaitDone ==
    /\ dPc = "proc_wait"
    /\ \A w \in dProcs : proc[w] = "exited"
    /\ dProcs' = {}
    /\ dPc' = "pkill1"
    /\ UNCHANGED <<streamVars, cancels, dPool, dWs, dAttempt, dLastErr, dResult, dRaised, dLog,
                   dDelays, dCleanup, dRuns, killProcs, killWs>>
    /\ UNCHANGED <<cmdOnlyVars, eventVars, pureVars>>

\* mutant: a tolerated step that fails is not caught and ends the route
ToleratedAborts(from, to, failed) ==
    /\ dPc = from
    /\ IF failed
       THEN dPc' = "idle" /\ dResult' = "raised"
       ELSE dPc' = to /\ UNCHANGED dResult
    /\ dCleanup' = Note(dCleanup, failed)
    /\ UNCHANGED <<iostat_procs, active_ws, destroying_pools, iostat_history, wsPc, wsPool, wsChan,
                   gen, arrivedMarked, nsamples, cancels, dPool, dWs, dProcs, dAttempt, dLastErr,
                   dRaised, dLog, dDelays, dRuns, killProcs, killWs>>
    /\ UNCHANGED <<cmdOnlyVars, eventVars, pureVars>>

\* a tolerated step of the sequence ends and the next one starts; a failure
\* is swallowed by its try / except Exception
Tolerated(from, to, failed) ==
    /\ dPc = from
    /\ dPc' = to
    /\ dCleanup' = Note(dCleanup, failed)
    /\ UNCHANGED <<iostat_procs, active_ws, destroying_pools, iostat_history, wsPc, wsPool, wsChan,
                   gen, arrivedMarked, nsamples, cancels, dPool, dWs, dProcs, dAttempt, dLastErr,
                   dResult, dRaised, dLog, dDelays, dRuns, killProcs, killWs>>
    /\ UNCHANGED <<cmdOnlyVars, eventVars, pureVars>>

\* an asyncio.sleep of the sequence ends
Slept(from, to) ==
    /\ dPc = from
    /\ dPc' = to
    /\ UNCHANGED <<streamVars, cancels, dPool, dWs, dProcs, dAttempt, dLastErr, dResult, dRaised,
                   dLog, dDelays, dCleanup, dRuns, killProcs, killWs>>
    /\ UNCHANGED <<cmdOnlyVars, eventVars, pureVars>>

\* a pkill -9 -f that ran signals the matching processes; one that raised
\* does nothing
Pkilled(ok) ==
    proc' = [w \in W |-> IF ok /\ w \in Matched(dPool) THEN "signalled" ELSE proc[w]]

\* step 2, first pattern: pkill -9 -f "zpool iostat.*<pool>"
PatternKill1(ok) == Tolerated("pkill1", "pkill2", ~ok) /\ Pkilled(ok)

\* step 2, second pattern: pkill -9 -f "zpool.*<pool>"
PatternKill2(ok) == Tolerated("pkill2", "sleep1", ~ok) /\ Pkilled(ok)

\* await asyncio.sleep(1) after the pattern kills
Sleep1 == Slept("sleep1", "mountpoint")

\* step 3: zfs get mountpoint; fuser runs only for a mountpoint that was
\* reported
MountpointQuery(found, ok) ==
    /\ found => ok
    /\ Tolerated("mountpoint", IF found THEN "fuser" ELSE "share1", ~ok)
    /\ UNCHANGED proc

\* step 3: fuser -km <mountpoint>
MountKill(ok) == Tolerated("fuser", "share1", ~ok) /\ UNCHANGED proc

\* step 4: zfs set sharenfs=off
ShareNfsOff(ok) == Tolerated("share1", "share2", ~ok) /\ UNCHANGED proc

\* step 4: zfs set sharesmb=off
ShareSmbOff(ok) == Tolerated("share2", "unmount", ~ok) /\ UNCHANGED proc

\* step 4: zfs unmount -f
ForceUnmount(ok) == Tolerated("unmount", "export", ~ok) /\ UNCHANGED proc

\* step 5: zpool.export_pool(pool, force=True)
\* (validate_pool_name raises before any command for a name that fails it)
Export(ok) ==
    /\ ok => validate_pool_name(Spelling(dPool))
    /\ Tolerated("export", "sleep2", ~ok)
    /\ UNCHANGED proc

\* mutant: the re-import is left out
Sleep2SkipsImport == Slept("sleep2", "lpkill")

\* await asyncio.sleep(1) after the export
Sleep2 == Slept("sleep2", "import")

\* step 6: zpool.import_pool(pool); the retry loop starts with attempt 0,
\* which sleeps no back-off and spawns its pkill
Reimport(ok) ==
    /\ ok => validate_pool_name(Spelling(dPool))
    /\ Tolerated("import", "lpkill", ~ok)
    /\ UNCHANGED proc

\* step 7: the back-off sleep of a retry ends, its pkill is spawned
Backoff == Slept("backoff", "lpkill")

\* mutant: the attempt follows the pkill without the pause
LoopKillNoPause(ok) == Tolerated("lpkill", "destroy", ~ok) /\ Pkilled(ok)

\* step 7: pkill -9 -f "zpool iostat.*<pool>" right before an attempt
LoopKill(ok) == Tolerated("lpkill", "pause", ~ok) /\ Pkilled(ok)

\* step 7: await asyncio.sleep(0.5); zpool.destroy_pool is called
Pause == Slept("pause", "destroy")

\* the back-off slept before retry number k of the loop
Delay(k) == k * BACKOFF_UNIT

\* mutant: the loop test off by one, a fourth attempt follows three failures
MoreAttemptsOneMore(a) == a < DESTROY_ATTEMPTS

\* whether the loop runs another attempt after the failed attempt with
\* loop variable a
MoreAttempts(a) == a + 1 < DESTROY_ATTEMPTS

\* mutant: last_err keeps the first failure instead of the latest
LastErrFirst(a, ok) == IF ok THEN 0 ELSE 1

\* last_err after an attempt with loop variable a: None after a success,
\* the error of this attempt after a failure
LastErrAfter(a, ok) == IF ok THEN 0 ELSE a + 1

\* step 7: zpool.destroy_pool(pool, force=True) returned (ok) or raised.
\* A success leaves the loop for the audit log; a failure is kept in
\* last_err, and either the next attempt's back-off starts or, after the
\* last attempt, last_err is raised.
DestroyAttempt(ok) ==
    /\ dPc = "destroy"
    /\ ok => validate_pool_name(Spelling(dPool))
    /\ dLog' = Append(dLog, ok)
    /\ dLastErr' = LastErrAfter(dAttempt, ok)
    /\ IF ok
       THEN /\ dPc' = "audit"
            /\ UNCHANGED <<dAttempt, dDelays, dResult, dRaised>>
       ELSE IF MoreAttempts(dAttempt)
       THEN /\ dAttempt' = dAttempt + 1
            /\ dDelays' = Append(dDelays, Delay(dAttempt + 1))
            /\ dPc' = "backoff"
            /\ UNCHANGED <<dResult, dRaised>>
       ELSE /\ dPc' = "idle"
            /\ dResult' = "raised"
            /\ dRaised' = LastErrAfter(dAttempt, ok)
            /\ UNCHANGED <<dAttempt, dDelays>>
    /\ UNCHANGED <<streamVars, cancels, dPool, dWs, dProcs, dCleanup, dRuns, killProcs, killWs>>
    /\ UNCHANGED <<cmdOnlyVars, eventVars, pureVars>>

\* audit_log was written: the route returns its success message
Audit ==
    /\ dPc = "audit"
    /\ dPc' = "idle"
    /\ dResult' = "success"
    /\ UNCHANGED <<streamVars, cancels, dPool, dWs, dProcs, dAttempt, dLastErr, dRaised, dLog,
                   dDelays, dCleanup, dRuns, killProcs, killWs>>
    /\ UNCHANGED <<cmdOnlyVars, eventVars, pureVars>>

NextDestroy ==
    \/ \E p \in Pools, confirmOk \in BOOLEAN : DestroyCall(p, confirmOk)
    \/ StopCloseNext
    \/ KillWaitDone
    \/ \E ok \in BOOLEAN : PatternKill1(ok)
    \/ \E ok \in BOOLEAN : PatternKill2(ok)
    \/ Sleep1
    \/ \E found, ok \in BOOLEAN : MountpointQuery(found, ok)
    \/ \E ok \in BOOLEAN : MountKill(ok)
    \/ \E ok \in BOOLEAN : ShareNfsOff(ok)
    \/ \E ok \in BOOLEAN : ShareSmbOff(ok)
    \/ \E ok \in BOOLEAN : ForceUnmount(ok)
    \/ \E ok \in BOOLEAN : Export(ok)
    \/ Sleep2
    \/ \E ok \in BOOLEAN : Reimport(ok)
    \/ Backoff
    \/ \E ok \in BOOLEAN : LoopKill(ok)
    \/ Pause
    \/ \E ok \in BOOLEAN : DestroyAttempt(ok)
    \/ Audit


\* ------------------------------------------------------------ ws_events
\* bound: WebSocket connections to /api/ws/events in one behaviour
NumEv == 2

E == 1..NumEv

InitEvents ==
    /\ evPc = [e \in E |-> "idle"]
    /\ evChan = [e \in E |-> "none"]
    /\ evGen = [e \in E |-> "none"]
    /\ evProc = [e \in E |-> "none"]

\* proc.terminate(): SIGTERM to a running process
Terminate(st) == IF st = "running" THEN "signalled" ELSE st

\* The finally of events_stream: proc.terminate(), then await proc.wait().
\* terminate raises ProcessLookupError once the process is gone and its
\* transport has finished (gone); events_stream does not catch it, so the
\* exception leaves the generator before proc.wait() is reached.
EventsFinally(st, gone) ==
    IF st = "exited" THEN (IF gone THEN "broken" ELSE "closed") ELSE "waiting"

\* ws_events starts: accept, then the session lookup; an authenticated
\* connection calls events_stream, which spawns zpool events
EvConnect(e, ok) ==
    /\ evPc[e] = "idle"
    /\ IF ok
       THEN /\ evPc' = [evPc EXCEPT ![e] = "spawning"]
            /\ evChan' = [evChan EXCEPT ![e] = "open"]
            /\ evGen' = [evGen EXCEPT ![e] = "live"]
       ELSE /\ evPc' = [evPc EXCEPT ![e] = "done"]
            /\ evChan' = [evChan EXCEPT ![e] = "c4001"]
            /\ UNCHANGED evGen
    /\ UNCHANGED <<evProc, cancels>>
    /\ UNCHANGED <<cmdOnlyVars, streamVars, destroyVars, pureVars>>

\* create_subprocess_exec("zpool", "events", "-f", "-H") returned
EvSpawnOk(e) ==
    /\ evPc[e] = "spawning"
    /\ evProc' = [evProc EXCEPT ![e] = "running"]
    /\ evPc' = [evPc EXCEPT ![e] = "reading"]
    /\ UNCHANGED <<evChan, evGen, cancels>>
    /\ UNCHANGED <<cmdOnlyVars, streamVars, destroyVars, pureVars>>

\* FileNotFoundError: the generator returns and the handler ends
EvSpawnNotFound(e) ==
    /\ evPc[e] = "spawning"
    /\ evGen' = [evGen EXCEPT ![e] = "closed"]
    /\ evPc' = [evPc EXCEPT ![e] = "done"]
    /\ UNCHANGED <<evChan, evProc, cancels>>
    /\ UNCHANGED <<cmdOnlyVars, streamVars, destroyVars, pureVars>>

\* any other exception of the spawn: except Exception closes with 1011
EvSpawnError(e) ==
    /\ evPc[e] = "spawning"
    /\ evGen' = [evGen EXCEPT ![e] = "closed"]
    /\ evChan' = [evChan EXCEPT ![e] = Close1011(@)]
    /\ evPc' = [evPc EXCEPT ![e] = "closing"]
    /\ UNCHANGED <<evProc, cancels>>
    /\ UNCHANGED <<cmdOnlyVars, streamVars, destroyVars, pureVars>>

\* the generator yields an event line, which is sent
EvReadLine(e) ==
    /\ evPc[e] = "reading"
    /\ evProc[e] = "running"
    /\ evPc' = [evPc EXCEPT ![e] = "sending"]
    /\ UNCHANGED <<evChan, evGen, evProc, cancels>>
    /\ UNCHANGED <<cmdOnlyVars, streamVars, destroyVars, pureVars>>

\* end of the subprocess's stdout: the finally of events_stream runs inside
\* the handler.  When terminate raises, the exception reaches the except
\* Exception of ws_events, which closes with 1011.
EvReadEOF(e, gone) ==
    /\ evPc[e] = "reading"
    /\ evProc[e] = "exited"
    /\ evGen' = [evGen EXCEPT ![e] = EventsFinally(evProc[e], gone)]
    /\ IF EventsFinally(evProc[e], gone) = "broken"
       THEN /\ evChan' = [evChan EXCEPT ![e] = Close1011(@)]
            /\ evPc' = [evPc EXCEPT ![e] = "closing"]
       ELSE /\ evPc' = [evPc EXCEPT ![e] = "done"]
            /\ UNCHANGED evChan
    /\ UNCHANGED <<evProc, cancels>>
    /\ UNCHANGED <<cmdOnlyVars, streamVars, destroyVars, pureVars>>

\* send_json succeeded
EvSendOk(e) ==
    /\ evPc[e] = "sending"
    /\ evChan[e] = "open"
    /\ evPc' = [evPc EXCEPT ![e] = "reading"]
    /\ UNCHANGED <<evChan, evGen, evProc, cancels>>
    /\ UNCHANGED <<cmdOnlyVars, streamVars, destroyVars, pureVars>>

\* send_json raised WebSocketDisconnect: the handler ends, the generator
\* stays at its yield until the event loop finalizes it
EvSendDisconnect(e) ==
    /\ evPc[e] = "sending"
    /\ evChan' = [evChan EXCEPT ![e] = "gone"]
    /\ evGen' = [evGen EXCEPT ![e] = "orphan"]
    /\ evPc' = [evPc EXCEPT ![e] = "done"]
    /\ UNCHANGED <<evProc, cancels>>
    /\ UNCHANGED <<cmdOnlyVars, streamVars, destroyVars, pureVars>>

\* send_json raised another exception: except Exception closes with 1011
EvSendError(e) ==
    /\ evPc[e] = "sending"
    /\ evChan' = [evChan EXCEPT ![e] = Close1011(@)]
    /\ evGen' = [evGen EXCEPT ![e] = "orphan"]
    /\ evPc' = [evPc EXCEPT ![e] = "closing"]
    /\ UNCHANGED <<evProc, cancels>>
    /\ UNCHANGED <<cmdOnlyVars, streamVars, destroyVars, pureVars>>

\* ws.close(1011) returned or raised: the handler ends
EvCloseDone(e) ==
    /\ evPc[e] = "closing"
    /\ evPc' = [evPc EXCEPT ![e] = "done"]
    /\ UNCHANGED <<evChan, evGen, evProc, cancels>>
    /\ UNCHANGED <<cmdOnlyVars, streamVars, destroyVars, pureVars>>

\* the event loop finalizes a generator left at its yield (aclose)
EvGenFinalize(e, gone) ==
    /\ evGen[e] = "orphan"
    /\ evProc' = [evProc EXCEPT ![e] = Terminate(@)]
    /\ evGen' = [evGen EXCEPT ![e] = EventsFinally(evProc[e], gone)]
    /\ UNCHANGED <<evPc, evChan, cancels>>
    /\ UNCHANGED <<cmdOnlyVars, streamVars, destroyVars, pureVars>>

\* await proc.wait() in the finally of events_stream returned; a handler
\* that was cancelled inside the generator goes on with its CancelledError
EvGenWaitDone(e) ==
    /\ evGen[e] = "waiting"
    /\ evProc[e] = "exited"
    /\ evGen' = [evGen EXCEPT ![e] = "closed"]
    /\ evPc' = [evPc EXCEPT ![e] = IF @ = "genwait" THEN "done" ELSE @]
    /\ UNCHANGED <<evChan, evProc, cancels>>
    /\ UNCHANGED <<cmdOnlyVars, streamVars, destroyVars, pureVars>>

\* the handler's task is cancelled at the await it is suspended at
EvCancel(e, gone) ==
    /\ evPc[e] \in {"spawning", "reading", "sending"}
    /\ cancels < MaxCancels
    /\ cancels' = cancels + 1
    /\ CASE evPc[e] = "spawning" ->
              /\ evGen' = [evGen EXCEPT ![e] = "closed"]
              /\ evPc' = [evPc EXCEPT ![e] = "done"]
              /\ UNCHANGED evProc
         [] evPc[e] = "reading" ->
              /\ evProc' = [evProc EXCEPT ![e] = Terminate(@)]
              /\ evGen' = [evGen EXCEPT ![e] = EventsFinally(evProc[e], gone)]
              /\ evPc' = [evPc EXCEPT ![e] =
                            IF EventsFinally(evProc[e], gone) = "waiting" THEN "genwait" ELSE "done"]
         [] evPc[e] = "sending" ->
              /\ evGen' = [evGen EXCEPT ![e] = "orphan"]
              /\ evPc' = [evPc EXCEPT ![e] = "done"]
              /\ UNCHANGED evProc
    /\ UNCHANGED evChan
    /\ UNCHANGED <<cmdOnlyVars, streamVars, destroyVars, pureVars>>

\* a zpool events process exits: on its own, or after a signal
EvProcExit(e) ==
    /\ evProc[e] \in {"running", "signalled"}
    /\ evProc' = [evProc EXCEPT ![e] = "exited"]
    /\ UNCHANGED <<evPc, evChan, evGen, cancels>>
    /\ UNCHANGED <<cmdOnlyVars, streamVars, destroyVars, pureVars>>

NextEvents ==
    \/ \E e \in E, ok \in BOOLEAN : EvConnect(e, ok)
    \/ \E e \in E : EvSpawnOk(e)
    \/ \E e \in E : EvSpawnNotFound(e)
    \/ \E e \in E : EvSpawnError(e)
    \/ \E e \in E : EvReadLine(e)
    \/ \E e \in E, gone \in BOOLEAN : EvReadEOF(e, gone)
    \/ \E e \in E : EvSendOk(e)
    \/ \E e \in E : EvSendDisconnect(e)
    \/ \E e \in E : EvSendError(e)
    \/ \E e \in E : EvCloseDone(e)
    \/ \E e \in E, gone \in BOOLEAN : EvGenFinalize(e, gone)
    \/ \E e \in E : EvGenWaitDone(e)
    \/ \E e \in E, gone \in BOOLEAN : EvCancel(e, gone)
    \/ \E e \in E : EvProcExit(e)

\* ------------------------------------------------------------ history
\* bound: samples stored in one behaviour of the history specification
MaxHistSamples == 305
\* bound: samples of the pool that is not under sustained sampling
MaxOtherSamples == 1

\* the pool whose stream runs long enough to fill its deque
SustainedPool == "tank"

\* get_iostat_history(pool): the stored samples as a list, oldest first
get_iostat_history(p) == DictGet(iostat_history, p, <<>>)

\* one turn of the loop of ws_iostat up to its send: the sample the stream of
\* pool p yields is stored in the pool's deque
HistSample(p) ==
    /\ nsamples < MaxHistSamples
    /\ p = SustainedPool \/ Len(get_iostat_history(p)) < MaxOtherSamples
    /\ nsamples' = nsamples + 1
    /\ iostat_history' = HistoryAppend(iostat_history, p, [pool |-> p, n |-> nsamples + 1])
    /\ UNCHANGED <<iostat_procs, active_ws, destroying_pools, wsPc, wsPool, wsChan, gen, proc,
                   arrivedMarked, cancels>>
    /\ UNCHANGED <<cmdOnlyVars, destroyVars, eventVars, pureVars>>

NextHistory == \E p \in Pools : HistSample(p)

NextCmd ==
    \/ \E c \in AllCallers : CmdEnter(c)
    \/ \E c \in AllCallers : CmdWake(c)
    \/ \E c \in AllCallers : CmdSpawnOk(c)
    \/ \E c \in AllCallers : CmdSpawnNotFound(c)
    \/ \E c \in AllCallers : CmdSpawnError(c)
    \/ \E c \in AllCallers, rc \in {0, 1} : CmdFinish(c, rc)
    \/ \E c \in AllCallers : CmdCancel(c)
    \/ CmdOrphanExit

\* no exception has been built
NoException == [kind |-> "none"]

\* parse_status_output has not been called
StatusIdle ==
    /\ raw = <<>>
    /\ lineNo = 0
    /\ section = ""
    /\ config_lines = <<>>
    /\ result = [state |-> <<>>, status |-> <<>>, action |-> <<>>, scan |-> <<>>,
                 config |-> [node |-> <<>>, devices |-> <<>>], errors |-> <<>>]
    /\ statusPc = "idle"

InitPure ==
    /\ clsErr = <<>>
    /\ clsRc = 1
    /\ clsOut = NoException
    /\ StatusIdle

vars == <<cmdOnlyVars, cancels, streamVars, destroyVars, eventVars, pureVars>>

Init == InitCmd /\ InitStream /\ InitDestroy /\ InitEvents /\ InitPure

\* short calls contending for the admission semaphore
SpecCmd == Init /\ [][NextCmd]_vars

\* event-feed streams
SpecEvents == Init /\ [][NextEvents]_vars

\* bound: destroy requests in one behaviour of the repeated-kill specification
MaxKillRuns == 2
\* bound: the WebSocket connections of the repeated-kill specification
KillW == {1}

\* a further DELETE /api/pools/{pool} after an earlier one has ended
DestroyAgain(p, confirmOk) == DestroyStart(p, confirmOk, MaxKillRuns)

NextKill ==
    \/ \E w \in KillW, p \in Pools \cup {NoPool} : WsConnect(w, p)
    \/ \E w \in KillW, ok \in BOOLEAN : WsAuth(w, ok)
    \/ \E w \in KillW : WsSpawnOk(w)
    \/ \E w \in KillW : WsSpawnNotFound(w)
    \/ \E w \in KillW : WsSpawnError(w)
    \/ \E w \in KillW : WsReadLine(w)
    \/ \E w \in KillW : WsReadEOF(w)
    \/ \E w \in KillW : WsSendOk(w)
    \/ \E w \in KillW : WsSendDisconnect(w)
    \/ \E w \in KillW : WsSendError(w)
    \/ \E w \in KillW : WsCloseDone(w)
    \/ \E w \in KillW : GenFinalize(w)
    \/ \E w \in KillW : GenWaitDone(w)
    \/ \E w \in KillW : WsCancel(w)
    \/ \E w \in KillW : ProcExit(w)
    \/ \E p \in Pools, confirmOk \in BOOLEAN : DestroyAgain(p, confirmOk)
    \/ StopCloseNext
    \/ KillWaitDone
    \/ \E ok \in BOOLEAN : PatternKill1(ok)
    \/ \E ok \in BOOLEAN : PatternKill2(ok)
    \/ Sleep1
    \/ \E found, ok \in BOOLEAN : MountpointQuery(found, ok)
    \/ \E ok \in BOOLEAN : MountKill(ok)
    \/ \E ok \in BOOLEAN : ShareNfsOff(ok)
    \/ \E ok \in BOOLEAN : ShareSmbOff(ok)
    \/ \E ok \in BOOLEAN : ForceUnmount(ok)
    \/ \E ok \in BOOLEAN : Export(ok)
    \/ Sleep2
    \/ \E ok \in BOOLEAN : Reimport(ok)
    \/ Backoff
    \/ \E ok \in BOOLEAN : LoopKill(ok)
    \/ Pause
    \/ \E ok \in BOOLEAN : DestroyAttempt(ok)
    \/ Audit

\* one subscriber and repeated destroy requests
SpecKill == Init /\ [][NextKill]_vars

\* ------------------------------------------------------------ argument vectors
\* a command as run_cmd gets it: the argument vector, and the positions in it
\* that hold a value taken from the request
Argv(args, user) == [argv |-> args, user |-> user]

\* a flag that is appended only when asked for
Flag(on, f) == IF on THEN <<f>> ELSE <<>>

\* step 3: run_cmd(["zfs", "get", "-H", "-o", "value", "mountpoint", pool])
MountpointCmd(pool) == Argv(<<"zfs", "get", "-H", "-o", "value", "mountpoint", pool>>, {7})

\* step 4: run_cmd(["zfs", "set", f"{prop}=off", pool])
ShareOffCmd(propOff, pool) == Argv(<<"zfs", "set", propOff, pool>>, {4})

\* step 4: run_cmd(["zfs", "unmount", "-f", pool])
UnmountCmd(pool) == Argv(<<"zfs", "unmount", "-f", pool>>, {4})

\* zpool.export_pool: ["zpool", "export"] + ["-f"] + ["--", pool]
ExportCmd(pool, force) ==
    Argv(<<"zpool", "export">> \o Flag(force, "-f") \o <<"--", pool>>, {IF force THEN 5 ELSE 4})

\* zpool.import_pool: ["zpool", "import"] + ["-f"] + ["--", pool]
ImportCmd(pool, force) ==
    Argv(<<"zpool", "import">> \o Flag(force, "-f") \o <<"--", pool>>, {IF force THEN 5 ELSE 4})

\* zpool.destroy_pool: ["zpool", "destroy"] + ["-f"] + ["--", pool]
DestroyCmd(pool, force) ==
    Argv(<<"zpool", "destroy">> \o Flag(force, "-f") \o <<"--", pool>>, {IF force THEN 5 ELSE 4})

\* the zfs and zpool commands the step of the destroy sequence at pc hands to
\* run_cmd; the zpool operations issue theirs only for a name that passed
\* validate_pool_name
Issued(pc, pool) ==
    CASE pc = "mountpoint" -> {MountpointCmd(pool)}
      [] pc = "share1" -> {ShareOffCmd("sharenfs=off", pool)}
      [] pc = "share2" -> {ShareOffCmd("sharesmb=off", pool)}
      [] pc = "unmount" -> {UnmountCmd(pool)}
      [] pc = "export" -> IF validate_pool_name(Spelling(pool)) THEN {ExportCmd(pool, TRUE)} ELSE {}
      [] pc = "import" -> IF validate_pool_name(Spelling(pool)) THEN {ImportCmd(pool, FALSE)} ELSE {}
      [] pc = "destroy" -> IF validate_pool_name(Spelling(pool)) THEN {DestroyCmd(pool, TRUE)} ELSE {}
      [] OTHER -> {}

\* ------------------------------------------------------------ classifier
\* bound: fragments an stderr text is put together from
MaxFrags == 2

\* the exit codes tried
ExitCodes == {1, 2}

UpperCase == <<"A", "B", "C", "D", "E", "F", "G", "H", "I", "J", "K", "L", "M",
               "N", "O", "P", "Q", "R", "S", "T", "U", "V", "W", "X", "Y", "Z">>
LowerCase == <<"a", "b", "c", "d", "e", "f", "g", "h", "i", "j", "k", "l", "m",
               "n", "o", "p", "q", "r", "s", "t", "u", "v", "w", "x", "y", "z">>

\* re.IGNORECASE: a character folded to lower case
LowerChar(ch) ==
    IF \E i \in 1..26 : UpperCase[i] = ch
    THEN LowerCase[CHOOSE i \in 1..26 : UpperCase[i] = ch]
    ELSE ch

Lower(text) == [i \in 1..Len(text) |-> LowerChar(text[i])]

\* _ERROR_PATTERNS, in its order.  A rule is a literal phrase (head), or a
\* head and a tail with .+ between them: one or more characters, none of
\* them a newline.
ERROR_PATTERNS ==
    << \* r"dataset does not exist"
       [head |-> <<"d", "a", "t", "a", "s", "e", "t", " ", "d", "o", "e", "s", " ", "n", "o", "t", " ", "e", "x", "i", "s", "t">>,
        tail |-> <<>>, kind |-> "ZFSNotFoundError"],
       \* r"no such pool"
       [head |-> <<"n", "o", " ", "s", "u", "c", "h", " ", "p", "o", "o", "l">>,
        tail |-> <<>>, kind |-> "ZFSNotFoundError"],
       \* r"could not find"
       [head |-> <<"c", "o", "u", "l", "d", " ", "n", "o", "t", " ", "f", "i", "n", "d">>,
        tail |-> <<>>, kind |-> "ZFSNotFoundError"],
       \* r"does not exist"
       [head |-> <<"d", "o", "e", "s", " ", "n", "o", "t", " ", "e", "x", "i", "s", "t">>,
        tail |-> <<>>, kind |-> "ZFSNotFoundError"],
       \* r"already exists"
       [head |-> <<"a", "l", "r", "e", "a", "d", "y", " ", "e", "x", "i", "s", "t", "s">>,
        tail |-> <<>>, kind |-> "ZFSExistsError"],
       \* r"dataset is busy"
       [head |-> <<"d", "a", "t", "a", "s", "e", "t", " ", "i", "s", " ", "b", "u", "s", "y">>,
        tail |-> <<>>, kind |-> "ZFSBusyError"],
       \* r"is busy"
       [head |-> <<"i", "s", " ", "b", "u", "s", "y">>,
        tail |-> <<>>, kind |-> "ZFSBusyError"],
       \* r"has dependent clones"
       [head |-> <<"h", "a", "s", " ", "d", "e", "p", "e", "n", "d", "e", "n", "t", " ", "c", "l", "o", "n", "e", "s">>,
        tail |-> <<>>, kind |-> "ZFSHasDependentsError"],
       \* r"has children"
       [head |-> <<"h", "a", "s", " ", "c", "h", "i", "l", "d", "r", "e", "n">>,
        tail |-> <<>>, kind |-> "ZFSHasDependentsError"],
       \* r"snapshot .+ has holds"
       [head |-> <<"s", "n", "a", "p", "s", "h", "o", "t", " ">>,
        tail |-> <<" ", "h", "a", "s", " ", "h", "o", "l", "d", "s">>,
        kind |-> "ZFSHasHoldsError"],
       \* r"tag already exists"
       [head |-> <<"t", "a", "g", " ", "a", "l", "r", "e", "a", "d", "y", " ", "e", "x", "i", "s", "t", "s">>,
        tail |-> <<>>, kind |-> "ZFSExistsError"],
       \* r"permission denied"
       [head |-> <<"p", "e", "r", "m", "i", "s", "s", "i", "o", "n", " ", "d", "e", "n", "i", "e", "d">>,
        tail |-> <<>>, kind |-> "ZFSPermissionError"],
       \* r"operation not permitted"
       [head |-> <<"o", "p", "e", "r", "a", "t", "i", "o", "n", " ", "n", "o", "t", " ", "p", "e", "r", "m", "i", "t", "t", "e", "d">>,
        tail |-> <<>>, kind |-> "ZFSPermissionError"],
       \* r"invalid property"
       [head |-> <<"i", "n", "v", "a", "l", "i", "d", " ", "p", "r", "o", "p", "e", "r", "t", "y">>,
        tail |-> <<>>, kind |-> "ZFSInvalidArgumentError"],
       \* r"bad property value"
       [head |-> <<"b", "a", "d", " ", "p", "r", "o", "p", "e", "r", "t", "y", " ", "v", "a", "l", "u", "e">>,
        tail |-> <<>>, kind |-> "ZFSInvalidArgumentError"],
       \* r"invalid vdev specification"
       [head |-> <<"i", "n", "v", "a", "l", "i", "d", " ", "v", "d", "e", "v", " ", "s", "p", "e", "c", "i", "f", "i", "c", "a", "t", "i", "o", "n">>,
        tail |-> <<>>, kind |-> "ZFSInvalidArgumentError"],
       \* r"invalid option"
       [head |-> <<"i", "n", "v", "a", "l", "i", "d", " ", "o", "p", "t", "i", "o", "n">>,
        tail |-> <<>>, kind |-> "ZFSInvalidArgumentError"] >>

\* the literal ph occurs in text at position i
At(ph, text, i) == i >= 1 /\ i + Len(ph) - 1 <= Len(text) /\ SubSeq(text, i, i + Len(ph) - 1) = ph

\* pattern.search(stderr) for a rule
Search(rule, stderr) ==
    LET text == Lower(stderr)
    IN  IF rule.tail = <<>>
        THEN \E i \in 1..Len(text) : At(rule.head, text, i)
        ELSE \E i \in 1..Len(text) : \E j \in (i + Len(rule.head) + 1)..Len(text) :
                /\ At(rule.head, text, i)
                /\ At(rule.tail, text, j)
                /\ \A k \in (i + Len(rule.head))..(j - 1) : text[k] # "\n"

Whitespace == {" ", "\t", "\n"}

\* str.strip()
RECURSIVE LStrip(_)
LStrip(text) == IF text # <<>> /\ Head(text) \in Whitespace THEN LStrip(Tail(text)) ELSE text
RECURSIVE RStrip(_)
RStrip(text) ==
    IF text # <<>> /\ text[Len(text)] \in Whitespace
    THEN RStrip(SubSeq(text, 1, Len(text) - 1))
    ELSE text
Strip(text) == RStrip(LStrip(text))

\* text.split("\n")[0]
RECURSIVE FirstLine(_)
FirstLine(text) ==
    IF text = <<>> \/ Head(text) = "\n" THEN <<>> ELSE <<Head(text)>> \o FirstLine(Tail(text))

\* the message "Unknown ZFS error" (kept whole: no stderr line is equal to it)
UnknownMessage == <<"Unknown ZFS error">>

\* ZFSError(message, stderr, returncode) and its subclasses
ZfsException(kind, message, stderr, returncode) ==
    [kind |-> kind, message |-> message, stderr |-> stderr, returncode |-> returncode]

\* mutant: the rules are tried from the last to the first
RECURSIVE ScanBackwards(_, _)
ScanBackwards(i, stderr) ==
    LET r == Len(ERROR_PATTERNS) + 1 - i
    IN  IF i > Len(ERROR_PATTERNS) THEN 0
        ELSE IF Search(ERROR_PATTERNS[r], stderr) THEN r
        ELSE ScanBackwards(i + 1, stderr)

\* for pattern, exc_class in _ERROR_PATTERNS: the index of the first rule,
\* from rule i on, whose pattern is found; 0 when the loop runs out
RECURSIVE Scan(_, _)
Scan(i, stderr) ==
    IF i > Len(ERROR_PATTERNS) THEN 0
    ELSE IF Search(ERROR_PATTERNS[i], stderr) THEN i
    ELSE Scan(i + 1, stderr)

\* mutant: the fallback always carries the placeholder message
FallbackPlaceholder(stderr) == UnknownMessage

\* mutant: the fallback takes the first line without looking for content
FallbackFirstLine(stderr) == FirstLine(Strip(stderr))

\* first_line of the fallback: the first line of the stripped stderr, the
\* placeholder when nothing is left of it
FallbackMessage(stderr) ==
    IF Strip(stderr) # <<>> THEN FirstLine(Strip(stderr)) ELSE UnknownMessage

parse_zfs_error(stderr, returncode) ==
    LET hit == Scan(1, stderr)
    IN  IF hit # 0
        THEN ZfsException(ERROR_PATTERNS[hit].kind, FirstLine(Strip(stderr)), stderr, returncode)
        ELSE ZfsException("ZFSError", FallbackMessage(stderr), stderr, returncode)

\* pieces of stderr output: the phrases of the rules as the tools print them,
\* parts of phrases, white space and text no rule knows
Fragments ==
    { <<"d", "a", "t", "a", "s", "e", "t", " ", "d", "o", "e", "s", " ", "n", "o", "t", " ", "e", "x", "i", "s", "t">>,
      <<"n", "o", " ", "s", "u", "c", "h", " ", "p", "o", "o", "l">>,
      <<"C", "o", "u", "l", "d", " ", "n", "o", "t", " ", "f", "i", "n", "d">>,
      <<"d", "o", "e", "s", " ", "n", "o", "t", " ", "e", "x", "i", "s", "t">>,
      <<"a", "l", "r", "e", "a", "d", "y", " ", "e", "x", "i", "s", "t", "s">>,
      <<"d", "a", "t", "a", "s", "e", "t", " ", "i", "s", " ", "b", "u", "s", "y">>,
      <<"i", "s", " ", "b", "u", "s", "y">>,
      <<"h", "a", "s", " ", "d", "e", "p", "e", "n", "d", "e", "n", "t", " ", "c", "l", "o", "n", "e", "s">>,
      <<"h", "a", "s", " ", "c", "h", "i", "l", "d", "r", "e", "n">>,
      <<"s", "n", "a", "p", "s", "h", "o", "t", " ", "'", "x", "'", " ", "h", "a", "s", " ", "h", "o", "l", "d", "s">>,
      <<"t", "a", "g", " ", "a", "l", "r", "e", "a", "d", "y", " ", "e", "x", "i", "s", "t", "s">>,
      <<"p", "e", "r", "m", "i", "s", "s", "i", "o", "n", " ", "d", "e", "n", "i", "e", "d">>,
      <<"O", "p", "e", "r", "a", "t", "i", "o", "n", " ", "n", "o", "t", " ", "p", "e", "r", "m", "i", "t", "t", "e", "d">>,
      <<"i", "n", "v", "a", "l", "i", "d", " ", "p", "r", "o", "p", "e", "r", "t", "y">>,
      <<"b", "a", "d", " ", "p", "r", "o", "p", "e", "r", "t", "y", " ", "v", "a", "l", "u", "e">>,
      <<"i", "n", "v", "a", "l", "i", "d", " ", "v", "d", "e", "v", " ", "s", "p", "e", "c", "i", "f", "i", "c", "a", "t", "i", "o", "n">>,
      <<"i", "n", "v", "a", "l", "i", "d", " ", "o", "p", "t", "i", "o", "n">>,
      <<"s", "n", "a", "p", "s", "h", "o", "t", " ">>,
      <<" ", "h", "a", "s", " ", "h", "o", "l", "d", "s">>,
      <<"x", "\n", " ", "h", "a", "s", " ", "h", "o", "l", "d", "s">>,
      <<"\n">>,
      <<" ", " ", " ">>,
      <<"t", "h">>,
      <<"u", "n", "k", "n", "o", "w", "n", " ", "e", "r", "r", "o", "r">>,
      <<"D", "A", "T", "A", "S", "E", "T", " ", "D", "O", "E", "S", " ", "N", "O", "T", " ", "E", "X", "I", "S", "T">>,
      <<"c", "a", "n", "n", "o", "t", " ", "o", "p", "e", "n", " ", "'", "x", "'", ":", " ">> }

\* the stderr texts tried: up to MaxFrags fragments, one after the other
RECURSIVE Texts(_)
Texts(n) ==
    IF n = 0 THEN {<<>>}
    ELSE Texts(n - 1) \cup {t \o f : t \in Texts(n - 1), f \in Fragments}

\* a command failed with some stderr and exit code
InitClassify ==
    /\ InitCmd /\ InitStream /\ InitDestroy /\ InitEvents
    /\ clsErr \in Texts(MaxFrags)
    /\ clsRc \in ExitCodes
    /\ clsOut = NoException
    /\ StatusIdle

\* raise parse_zfs_error(stderr, rc)
Classify ==
    /\ clsOut = NoException
    /\ clsOut' = parse_zfs_error(clsErr, clsRc)
    /\ UNCHANGED <<clsErr, clsRc, statusVars>>
    /\ UNCHANGED <<cmdOnlyVars, cancels, streamVars, destroyVars, eventVars>>

NextClassify == Classify

SpecClassify == InitClassify /\ [][NextClassify]_vars

\* ------------------------------------------------------------ status parser
\* Text is a sequence of tokens: a space, a tab, a newline, a colon, or a
\* maximal run of other characters (a word); two words are never adjacent.

\* bound: lines of a generated status text
MaxLines == 3
\* bound: rows of a generated config section
MaxRows == 4

\* raw.split("\n")
RECURSIVE SplitLines(_)
SplitLines(text) ==
    IF \A i \in 1..Len(text) : text[i] # "\n"
    THEN <<text>>
    ELSE LET k == CHOOSE i \in 1..Len(text) :
                      text[i] = "\n" /\ \A j \in 1..(i - 1) : text[j] # "\n"
         IN  <<SubSeq(text, 1, k - 1)>> \o SplitLines(SubSeq(text, k + 1, Len(text)))

\* line.split(":", 1)[1].strip()
AfterColon(line) ==
    LET k == CHOOSE i \in 1..Len(line) : line[i] = ":" /\ \A j \in 1..(i - 1) : line[j] # ":"
    IN  Strip(SubSeq(line, k + 1, Len(line)))

\* the section labels of lines 154-172, each with the field it seeds and the
\* section it opens, in the order they are tried
SECTION_LABELS ==
    << [prefix |-> <<" ", " ", "pool", ":">>, field |-> "",       section |-> "same"],
       [prefix |-> <<" ", "state", ":">>,     field |-> "state",  section |-> ""],
       [prefix |-> <<"status", ":">>,         field |-> "status", section |-> "status"],
       [prefix |-> <<"action", ":">>,         field |-> "action", section |-> "action"],
       [prefix |-> <<" ", " ", "scan", ":">>, field |-> "scan",   section |-> "scan"],
       [prefix |-> <<"config", ":">>,         field |-> "",       section |-> "config"],
       [prefix |-> <<"errors", ":">>,         field |-> "errors", section |-> "errors"] >>

\* the first label with line.startswith(prefix), 0 when there is none
LabelOf(line) ==
    IF \E i \in 1..Len(SECTION_LABELS) : At(SECTION_LABELS[i].prefix, line, 1)
    THEN CHOOSE i \in 1..Len(SECTION_LABELS) :
            /\ At(SECTION_LABELS[i].prefix, line, 1)
            /\ \A j \in 1..(i - 1) : ~At(SECTION_LABELS[j].prefix, line, 1)
    ELSE 0

\* mutant: the continuation is appended without the space
ContinueNoSpace(field, stripped) == field \o stripped

\* result[section] += " " + stripped
Continue(field, stripped) == field \o <<" ">> \o stripped

\* re.match(r"\s*NAME\s+STATE", line); STATE is the only word of the texts
\* tried that begins with STATE
IsHeader(line) ==
    LET s == LStrip(line)
    IN  /\ Len(s) >= 3
        /\ s[1] = "NAME"
        /\ s[2] \in Whitespace
        /\ LStrip(Tail(s)) # <<>>
        /\ Head(LStrip(Tail(s))) = "STATE"

\* data_lines: the header row and blank lines dropped
DataLines(lines) == SelectSeq(lines, LAMBDA l : ~IsHeader(l) /\ Strip(l) # <<>>)

\* stripped.split(): the maximal runs without white space
RECURSIVE Split(_)
Split(text) ==
    LET s == LStrip(text)
    IN  IF s = <<>> THEN <<>>
        ELSE LET k == IF \E i \in 1..Len(s) : s[i] \in Whitespace
                      THEN CHOOSE i \in 1..Len(s) :
                              s[i] \in Whitespace /\ \A j \in 1..(i - 1) : s[j] \notin Whitespace
                      ELSE Len(s) + 1
             IN  <<SubSeq(s, 1, k - 1)>> \o Split(SubSeq(s, k, Len(s)))

\* mutant: a missing error column is left empty
DefaultEmpty == <<>>

\* the default "0" of a missing error column
DefaultCount == <<"0">>

\* the device dict of lines 222-229
Device(stripped) ==
    LET parts == Split(stripped)
    IN  [name            |-> IF Len(parts) > 0 THEN parts[1] ELSE <<>>,
         state           |-> IF Len(parts) > 1 THEN parts[2] ELSE <<>>,
         read_errors     |-> IF Len(parts) > 2 THEN parts[3] ELSE DefaultCount,
         write_errors    |-> IF Len(parts) > 3 THEN parts[4] ELSE DefaultCount,
         checksum_errors |-> IF Len(parts) > 4 THEN parts[5] ELSE DefaultCount,
         children        |-> <<>>]

\* len(line) - len(line.lstrip())
Indent(line) == Len(line) - Len(LStrip(line))

\* mutant: only deeper entries are popped
RECURSIVE PopDeeper(_, _)
PopDeeper(stack, indent) ==
    IF stack # <<>> /\ stack[Len(stack)][1] > indent
    THEN PopDeeper(SubSeq(stack, 1, Len(stack) - 1), indent)
    ELSE stack

\* while stack and stack[-1][0] >= indent: stack.pop()
RECURSIVE PopStack(_, _)
PopStack(stack, indent) ==
    IF stack # <<>> /\ stack[Len(stack)][1] >= indent
    THEN PopStack(SubSeq(stack, 1, Len(stack) - 1), indent)
    ELSE stack

\* One iteration of the loop of lines 216-240.  The device dicts are kept
\* in t.node in the order they are made, and a reference to a dict is its
\* index there: t.devices, the children lists and the stack hold indices.
Attach(t, line) ==
    LET id    == Len(t.node) + 1
        stack == PopStack(t.stack, Indent(line))
        made  == Append(t.node, Device(LStrip(line)))
    IN  [node    |-> IF stack # <<>>
                     THEN [made EXCEPT ![stack[Len(stack)][2]].children = Append(@, id)]
                     ELSE made,
         devices |-> IF stack # <<>> THEN t.devices ELSE Append(t.devices, id),
         stack   |-> Append(stack, <<Indent(line), id>>)]

RECURSIVE BuildTree(_, _)
BuildTree(t, lines) ==
    IF lines = <<>> THEN t ELSE BuildTree(Attach(t, Head(lines)), Tail(lines))

\* _parse_config_lines(lines)
parse_config_lines(lines) ==
    LET t == BuildTree([node |-> <<>>, devices |-> <<>>, stack |-> <<>>], DataLines(lines))
    IN  [node |-> t.node, devices |-> t.devices]

\* the fixtures of tests/test_zpool_parser.py
RAIDZ2_WITH_SPECIAL_VDEVS ==
  <<
    " ", " ", "pool", ":", " ", "datapool", "\n",
    " ", "state", ":", " ", "ONLINE", "\n",
    " ", " ", "scan", ":", " ", "scrub", " ", "repaired", " ", "0B", " ", "in", " ", "02", ":", "15", ":", "00", " ", "with", " ", "0", " ", "errors", " ", "on", " ", "Sun", " ", "Jan", " ", "14", " ", "02", ":", "15", ":", "00", " ", "2024", "\n",
    "config", ":", "\n",
    "\n",
    "\t", "NAME", " ", " ", " ", " ", " ", " ", " ", " ", " ", " ", "STATE", " ", " ", " ", " ", " ", "READ", " ", "WRITE", " ", "CKSUM", "\n",
    "\t", "datapool", " ", " ", " ", " ", " ", " ", "ONLINE", " ", " ", " ", " ", " ", " ", " ", "0", " ", " ", " ", " ", " ", "0", " ", " ", " ", " ", " ", "0", "\n",
    "\t", " ", " ", "raidz2-0", " ", " ", " ", " ", "ONLINE", " ", " ", " ", " ", " ", " ", " ", "0", " ", " ", " ", " ", " ", "0", " ", " ", " ", " ", " ", "0", "\n",
    "\t", " ", " ", " ", " ", "sda", " ", " ", " ", " ", " ", " ", " ", "ONLINE", " ", " ", " ", " ", " ", " ", " ", "0", " ", " ", " ", " ", " ", "0", " ", " ", " ", " ", " ", "0", "\n",
    "\t", " ", " ", " ", " ", "sdb", " ", " ", " ", " ", " ", " ", " ", "ONLINE", " ", " ", " ", " ", " ", " ", " ", "0", " ", " ", " ", " ", " ", "0", " ", " ", " ", " ", " ", "0", "\n",
    "\t", " ", " ", " ", " ", "sdc", " ", " ", " ", " ", " ", " ", " ", "ONLINE", " ", " ", " ", " ", " ", " ", " ", "0", " ", " ", " ", " ", " ", "0", " ", " ", " ", " ", " ", "0", "\n",
    "\t", " ", " ", " ", " ", "sdd", " ", " ", " ", " ", " ", " ", " ", "ONLINE", " ", " ", " ", " ", " ", " ", " ", "0", " ", " ", " ", " ", " ", "0", " ", " ", " ", " ", " ", "0", "\n",
    "\t", " ", " ", " ", " ", "sde", " ", " ", " ", " ", " ", " ", " ", "ONLINE", " ", " ", " ", " ", " ", " ", " ", "0", " ", " ", " ", " ", " ", "0", " ", " ", " ", " ", " ", "0", "\n",
    "\t", "logs", "\n",
    "\t", " ", " ", "nvme0n1", " ", " ", " ", " ", " ", "ONLINE", " ", " ", " ", " ", " ", " ", " ", "0", " ", " ", " ", " ", " ", "0", " ", " ", " ", " ", " ", "0", "\n",
    "\t", "cache", "\n",
    "\t", " ", " ", "nvme1n1", " ", " ", " ", " ", " ", "ONLINE", " ", " ", " ", " ", " ", " ", " ", "0", " ", " ", " ", " ", " ", "0", " ", " ", " ", " ", " ", "0", "\n",
    "\t", "spares", "\n",
    "\t", " ", " ", "sdf", " ", " ", " ", " ", " ", " ", " ", " ", " ", "AVAIL", "\n",
    "\n",
    "errors", ":", " ", "No", " ", "known", " ", "data", " ", "errors", "\n"
  >>

DEGRADED_POOL ==
  <<
    " ", " ", "pool", ":", " ", "tank", "\n",
    " ", "state", ":", " ", "DEGRADED", "\n",
    "status", ":", " ", "One", " ", "or", " ", "more", " ", "devices", " ", "has", " ", "been", " ", "removed", " ", "by", " ", "the", " ", "administrator.", "\n",
    "\t", "Sufficient", " ", "replicas", " ", "exist", " ", "for", " ", "the", " ", "pool", " ", "to", " ", "continue", " ", "functioning", " ", "in", " ", "a", "\n",
    "\t", "degraded", " ", "state.", "\n",
    "action", ":", " ", "Online", " ", "the", " ", "device", " ", "using", " ", "'zpool", " ", "online'", " ", "or", " ", "replace", " ", "the", " ", "device", " ", "with", "\n",
    "\t", "'zpool", " ", "replace'.", "\n",
    " ", " ", "scan", ":", " ", "scrub", " ", "in", " ", "progress", " ", "since", " ", "Sun", " ", "Jan", " ", "14", " ", "00", ":", "00", ":", "00", " ", "2024", "\n",
    "\t", "500G", " ", "scanned", " ", "at", " ", "100M/s,", " ", "250G", " ", "issued", " ", "at", " ", "50M/s,", " ", "1T", " ", "total", "\n",
    "\t", "0B", " ", "repaired,", " ", "25.0%", " ", "done,", " ", "04", ":", "00", ":", "00", " ", "to", " ", "go", "\n",
    "config", ":", "\n",
    "\n",
    "\t", "NAME", " ", " ", " ", " ", " ", " ", " ", " ", "STATE", " ", " ", " ", " ", " ", "READ", " ", "WRITE", " ", "CKSUM", "\n",
    "\t", "tank", " ", " ", " ", " ", " ", " ", " ", " ", "DEGRADED", " ", " ", " ", " ", " ", "0", " ", " ", " ", " ", " ", "0", " ", " ", " ", " ", " ", "0", "\n",
    "\t", " ", " ", "mirror-0", " ", " ", "DEGRADED", " ", " ", " ", " ", " ", "0", " ", " ", " ", " ", " ", "0", " ", " ", " ", " ", " ", "0", "\n",
    "\t", " ", " ", " ", " ", "sda", " ", " ", " ", " ", " ", "ONLINE", " ", " ", " ", " ", " ", " ", " ", "0", " ", " ", " ", " ", " ", "0", " ", " ", " ", " ", " ", "0", "\n",
    "\t", " ", " ", " ", " ", "sdb", " ", " ", " ", " ", " ", "FAULTED", " ", " ", " ", " ", " ", " ", "3", " ", " ", " ", " ", "12", " ", " ", " ", " ", " ", "0", " ", " ", "too", " ", "many", " ", "errors", "\n",
    "\t", " ", " ", "mirror-1", " ", " ", "ONLINE", " ", " ", " ", " ", " ", " ", " ", "0", " ", " ", " ", " ", " ", "0", " ", " ", " ", " ", " ", "0", "\n",
    "\t", " ", " ", " ", " ", "sdc", " ", " ", " ", " ", " ", "ONLINE", " ", " ", " ", " ", " ", " ", " ", "0", " ", " ", " ", " ", " ", "0", " ", " ", " ", " ", " ", "0", "\n",
    "\t", " ", " ", " ", " ", "sdd", " ", " ", " ", " ", " ", "ONLINE", " ", " ", " ", " ", " ", " ", " ", "0", " ", " ", " ", " ", " ", "0", " ", " ", " ", " ", " ", "0", "\n",
    "\n",
    "errors", ":", " ", "No", " ", "known", " ", "data", " ", "errors", "\n"
  >>

\* lines of status output: labelled lines, wrapped narrative, blank lines
StatusLinePool ==
    { <<" ", " ", "pool", ":", " ", "tank">>,
      <<" ", "state", ":", " ", "ONLINE">>,
      <<"status", ":", " ", "One", " ", "or", " ", " ", "more">>,
      <<"action", ":", " ", "Replace", " ", "the">>,
      <<" ", " ", "scan", ":", " ", "scrub", " ", "at", " ", "02", ":", "15">>,
      <<"config", ":">>,
      <<"errors", ":", " ", "No", " ", "known">>,
      <<"\t", "devices", " ", " ", "removed", " ">>,
      <<" ", " ", "status", ":", " ", "of", " ", "sda">>,
      <<"\t", " ">>,
      <<>> }

\* rows of a config section: the header, devices at three depths, a spare
\* without counters, a group name alone, a blank row
ConfigRowPool ==
    { <<"\t", "NAME", " ", " ", "STATE", " ", "READ", " ", "WRITE", " ", "CKSUM">>,
      <<"\t", "tank", " ", " ", "ONLINE", " ", "0", " ", "0", " ", "0">>,
      <<"\t", " ", " ", "mirror-0", " ", "DEGRADED", " ", "0", " ", "0", " ", "0">>,
      <<"\t", " ", " ", " ", " ", "sdb", " ", "FAULTED", " ", "3", " ", "12", " ", "0", " ", " ", "too", " ", "many">>,
      <<"\t", " ", " ", "sdf", " ", " ", "AVAIL">>,
      <<"\t", "logs">>,
      <<>> }

\* all sequences of up to n lines out of a pool
RECURSIVE LineSeqs(_, _)
LineSeqs(pool, n) ==
    IF n = 0 THEN {<<>>}
    ELSE LineSeqs(pool, n - 1) \cup {Append(ls, l) : ls \in LineSeqs(pool, n - 1), l \in pool}

\* "\n".join(lines)
RECURSIVE Join(_)
Join(lines) ==
    IF lines = <<>> THEN <<>>
    ELSE IF Len(lines) = 1 THEN lines[1]
    ELSE lines[1] \o <<"\n">> \o Join(Tail(lines))

\* the status texts tried
StatusTexts ==
    {RAIDZ2_WITH_SPECIAL_VDEVS, DEGRADED_POOL}
    \cup {Join(ls) : ls \in LineSeqs(StatusLinePool, MaxLines)}
    \cup {Join(<<<<"config", ":">>>> \o ls) : ls \in LineSeqs(ConfigRowPool, MaxRows)}

\* parse_status_output(raw) is called
InitStatus ==
    /\ InitCmd /\ InitStream /\ InitDestroy /\ InitEvents
    /\ clsErr = <<>> /\ clsRc = 1 /\ clsOut = NoException
    /\ raw \in StatusTexts
    /\ lineNo = 0
    /\ section = ""
    /\ config_lines = <<>>
    /\ result = [state |-> <<>>, status |-> <<>>, action |-> <<>>, scan |-> <<>>,
                 config |-> [node |-> <<>>, devices |-> <<>>], errors |-> <<>>]
    /\ statusPc = "loop"

\* one iteration of `for line in raw.split("\n")`
ParseLine ==
    /\ statusPc = "loop"
    /\ lineNo < Len(SplitLines(raw))
    /\ lineNo' = lineNo + 1
    /\ LET line     == SplitLines(raw)[lineNo + 1]
           stripped == Strip(line)
           label    == LabelOf(line)
       IN  IF label # 0
           THEN LET l == SECTION_LABELS[label]
                IN  /\ result' = IF l.field = "" THEN result
                                 ELSE [result EXCEPT ![l.field] = AfterColon(line)]
                    /\ section' = IF l.section = "same" THEN section ELSE l.section
                    /\ UNCHANGED config_lines
           ELSE IF section \in {"status", "action", "scan", "errors"} /\ stripped # <<>>
           THEN /\ result' = [result EXCEPT ![section] = Continue(@, stripped)]
                /\ UNCHANGED <<section, config_lines>>
           ELSE IF section = "config" /\ stripped # <<>>
           THEN /\ config_lines' = Append(config_lines, line)
                /\ UNCHANGED <<section, result>>
           ELSE UNCHANGED <<section, config_lines, result>>
    /\ UNCHANGED <<raw, statusPc>>
    /\ UNCHANGED <<clsErr, clsRc, clsOut>>
    /\ UNCHANGED <<cmdOnlyVars, cancels, streamVars, destroyVars, eventVars>>

\* result["config"] = _parse_config_lines(config_lines); return result
ParseConfig ==
    /\ statusPc = "loop"
    /\ lineNo = Len(SplitLines(raw))
    /\ result' = [result EXCEPT !.config = parse_config_lines(config_lines)]
    /\ statusPc' = "done"
    /\ UNCHANGED <<raw, lineNo, section, config_lines>>
    /\ UNCHANGED <<clsErr, clsRc, clsOut>>
    /\ UNCHANGED <<cmdOnlyVars, cancels, streamVars, destroyVars, eventVars>>

NextStatus ==
    \/ ParseLine
    \/ ParseConfig

SpecStatus == InitStatus /\ [][NextStatus]_vars

\* DELETE /api/pools/{pool} with any name in the path
DestroyNamed(p, confirmOk) == DestroyStart(p, confirmOk, MaxDestroys)

\* the destroy route called with pool names and with other names, no stream
\* being open
NextNames ==
    \/ \E p \in Pools \cup BadNames, confirmOk \in BOOLEAN : DestroyNamed(p, confirmOk)
    \/ \E ok \in BOOLEAN : PatternKill1(ok)
    \/ \E ok \in BOOLEAN : PatternKill2(ok)
    \/ Sleep1
    \/ \E found, ok \in BOOLEAN : MountpointQuery(found, ok)
    \/ \E ok \in BOOLEAN : MountKill(ok)
    \/ \E ok \in BOOLEAN : ShareNfsOff(ok)
    \/ \E ok \in BOOLEAN : ShareSmbOff(ok)
    \/ \E ok \in BOOLEAN : ForceUnmount(ok)
    \/ \E ok \in BOOLEAN : Export(ok)
    \/ Sleep2
    \/ \E ok \in BOOLEAN : Reimport(ok)
    \/ Backoff
    \/ \E ok \in BOOLEAN : LoopKill(ok)
    \/ Pause
    \/ \E ok \in BOOLEAN : DestroyAttempt(ok)
    \/ Audit

SpecNames == Init /\ [][NextNames]_vars

\* the streams that stay open beside the short calls
MixW == {1}
MixE == {1}

\* short calls running beside an open iostat stream and an open event stream
NextMix ==
    \/ \E c \in Callers : CmdEnter(c)
    \/ \E c \in Callers : CmdWake(c)
    \/ \E c \in Callers : CmdSpawnOk(c)
    \/ \E c \in Callers : CmdFinish(c, 0)
    \/ \E w \in MixW, p \in Pools : WsConnect(w, p)
    \/ \E w \in MixW, ok \in BOOLEAN : WsAuth(w, ok)
    \/ \E w \in MixW : WsSpawnOk(w)
    \/ \E w \in MixW : WsReadLine(w)
    \/ \E w \in MixW : WsSendOk(w)
    \/ \E e \in MixE, ok \in BOOLEAN : EvConnect(e, ok)
    \/ \E e \in MixE : EvSpawnOk(e)
    \/ \E e \in MixE : EvReadLine(e)
    \/ \E e \in MixE : EvSendOk(e)

SpecMix == Init /\ [][NextMix]_vars

\* sustained sampling into the history buffers
SpecHistory == Init /\ [][NextHistory]_vars

\* iostat streams and the destroy sequence
Next == NextWs \/ NextDestroy

Spec == Init /\ [][Next]_vars

\* ================================================================ claims

\* the destroy sequence is past stop_pool_streams: the kill has returned
StopReturned == dResult \in {"success", "raised"} \/ dPc \notin {"idle", "ws_close", "proc_wait"}

\* WebSockets registered for pool p
Registered(p) == DictGet(active_ws, p, {})

\* processes tracked for pool p
Tracked(p) == DictGet(iostat_procs, p, {})

\* subscribers whose handler is streaming pool p
Streaming(p) == {w \in W : wsPool[w] = p /\ wsPc[w] \in {"reading", "sending"}}

\* C1: at every moment at most 4 subprocesses started through run_cmd are
\* running, however many run_cmd calls are issued.
C1_AtMostFourRunning == RunCmdProcs <= 4

\* C2: the destroy command is attempted at most 3 times and never again after
\* a success; two failures followed by a success end in success after exactly
\* 3 attempts; the back-off before retry k is k x 3 seconds, so the delays
\* strictly increase.
C2_DestroyRetries ==
    /\ Len(dLog) <= 3
    /\ \A i \in 1..(Len(dLog) - 1) : dLog[i] = FALSE
    /\ (dLog = <<FALSE, FALSE, TRUE>> /\ dPc = "idle") => dResult = "success"
    /\ dResult = "success" => dLog[Len(dLog)] = TRUE
    /\ Len(dDelays) <= 2
    /\ \A k \in 1..Len(dDelays) : dDelays[k] = k * 3
    /\ \A k \in 1..(Len(dDelays) - 1) : dDelays[k] < dDelays[k + 1]
    /\ dPc \in {"backoff", "lpkill", "pause", "destroy"} => Len(dDelays) = Len(dLog)

\* C2 witness: two failed attempts, then a success, with delays 3 and 6
C2_Witness == dLog = <<FALSE, FALSE, TRUE>> /\ dResult = "success" /\ dDelays = <<3, 6>>

\* C3: when all 3 attempts fail the route raises the error of the third
\* attempt and reports no success; it raises in no other case.
C3_LastFailurePropagates ==
    /\ (dPc = "idle" /\ dLog = <<FALSE, FALSE, FALSE>>) => (dResult = "raised" /\ dRaised = 3)
    /\ dResult = "raised" => (dLog = <<FALSE, FALSE, FALSE>> /\ dRaised = 3 /\ dLastErr = 3)

\* C3 witness: three failed attempts
C3_Witness == dResult = "raised" /\ dLog = <<FALSE, FALSE, FALSE>>

\* C4: no failure of a step before the destroy command ends the sequence: a
\* sequence that has started ends only through a destroy attempt, and it ends
\* in success exactly when some attempt succeeded.
C4_CleanupNeverAborts ==
    /\ dResult \in {"success", "raised"} => Len(dLog) >= 1
    /\ (dPc = "idle" /\ dResult \in {"success", "raised"}) =>
          (dResult = "success" <=> \E i \in 1..Len(dLog) : dLog[i])
    /\ (dPc = "idle" /\ dRuns > 0 /\ dResult # "rejected") => dResult \in {"success", "raised"}

\* C4 witness: every tolerated step failed, the closing of a registered
\* subscriber included, and the pool was destroyed all the same
C4_Witness == dResult = "success" /\ dCleanup = "all_failed" /\ killWs # {}

\* C5: a subscription that arrives once its pool is marked being-destroyed is
\* never registered, gets no generator and no subprocess, and its channel is
\* closed with the teardown reason (unless it had no session).
C5_RejectedWhileDestroying ==
    \A w \in W : arrivedMarked[w] =>
        /\ w \notin Registered(wsPool[w])
        /\ gen[w] = "none"
        /\ proc[w] = "none"
        /\ wsPc[w] \in {"auth", "done"}
        /\ wsPc[w] = "done" => wsChan[w] \in {"teardown", "c4001"}

\* C5 witness: a subscription that arrived after the mark and was refused
C5_Witness == \E w \in W : arrivedMarked[w] /\ wsPc[w] = "done" /\ wsChan[w] = "teardown"

\* C6 (processes): once the kill of a pool's stream has returned, every
\* process that was tracked for the pool when it was called has exited, also
\* in behaviours without any task cancellation.
C6_ProcsExited == (cancels = 0 /\ StopReturned) => \A w \in killProcs : proc[w] = "exited"

\* C6 (channels): once the kill has returned, every channel that was
\* registered for the pool is closed with the teardown reason.
C6_ChannelsTeardown == StopReturned => \A w \in killWs : wsChan[w] = "teardown"

\* C7: when the destroy of a pool has succeeded, the pool is no longer in the
\* being-destroyed set and has no entries left in the subscriber map, the
\* process map or the history.
C7_SuccessClearsRegistry ==
    dResult = "success" =>
        /\ dPool \notin destroying_pools
        /\ Registered(dPool) = {}
        /\ Tracked(dPool) = {}
        /\ DictGet(iostat_history, dPool, <<>>) = <<>>

C9_OneProcPerPool ==
    \A p \in Pools : Cardinality({w \in W : wsPool[w] = p /\ proc[w] = "running"}) <= 1

\* C9 amended: every subscriber that streams a pool has a subprocess of its
\* own, spawned by its own generator and tracked under its pool while it runs
\* and the tracked set has not been detached.
C9_OneProcPerSubscriber ==
    /\ \A w \in W : wsPc[w] \in {"reading", "sending"} => proc[w] # "none"
    /\ \A p \in Pools : Tracked(p) \subseteq {w \in W : wsPool[w] = p /\ proc[w] # "none"}

\* C9 witness: two subscribers stream the same pool, each with its own
\* running, tracked subprocess
C9_Witness ==
    \E w, v \in W : /\ w # v
                    /\ wsPool[w] = wsPool[v]
                    /\ {w, v} \subseteq Streaming(wsPool[w])
                    /\ proc[w] = "running" /\ proc[v] = "running"
                    /\ {w, v} \subseteq Tracked(wsPool[w])

\* the handler of w sees its client gone (WebSocketDisconnect)
Disconnects(w) == wsPc[w] = "sending" /\ wsPc'[w] = "done" /\ wsChan'[w] = "gone"

\* the stream of a disconnected subscriber is torn down
TearsDown(w) == wsChan[w] = "gone" /\ gen[w] = "orphan" /\ gen'[w] # "orphan"

\* nothing of the other subscribers changes in the step
SiblingsKept(w) ==
    \A v \in W \ {w} :
        /\ (v \in DictGet(active_ws', wsPool[v], {})) <=> (v \in Registered(wsPool[v]))
        /\ (v \in DictGet(iostat_procs', wsPool[v], {})) <=> (v \in Tracked(wsPool[v]))
        /\ proc'[v] = proc[v]
        /\ gen'[v] = gen[v]
        /\ wsPc'[v] = wsPc[v]
        /\ wsChan'[v] = wsChan[v]

\* C10: when a subscriber disconnects only its own channel leaves the
\* registry and only its own stream is torn down; every other subscriber
\* stays registered and keeps its subprocess and its position.
C10_DisconnectLeavesSiblings ==
    [][\A w \in W :
          /\ Disconnects(w) => (w \notin DictGet(active_ws', wsPool[w], {}) /\ SiblingsKept(w))
          /\ TearsDown(w) => (/\ w \notin DictGet(iostat_procs', wsPool[w], {})
                              /\ proc'[w] # "running"
                              /\ SiblingsKept(w))]_vars

\* C10 witness: one subscriber is gone and its stream torn down while a
\* sibling on the same pool is registered, tracked and streaming
C10_Witness ==
    \E w, v \in W : /\ w # v
                    /\ wsPool[w] = wsPool[v]
                    /\ wsChan[w] = "gone" /\ wsPc[w] = "done" /\ gen[w] = "closed"
                    /\ v \in Registered(wsPool[v])
                    /\ v \in Tracked(wsPool[v])
                    /\ proc[v] = "running"
                    /\ wsPc[v] \in {"reading", "sending"}

\* a sample was stored in this step
Stored == nsamples' = nsamples + 1

\* the history of p after the step is the history before it, less its oldest
\* sample when it was full, followed by the new sample
AppendedTo(p) ==
    LET old == get_iostat_history(p)
        new == DictGet(iostat_history', p, <<>>)
        drop == IF Len(old) = 300 THEN 1 ELSE 0
    IN  /\ Len(new) = Len(old) + 1 - drop
        /\ new[Len(new)] = [pool |-> p, n |-> nsamples']
        /\ \A i \in 1..(Len(new) - 1) : new[i] = old[i + drop]

\* C11: the history of a pool never holds more than 300 samples, they are in
\* insertion order, and every stored sample goes to the end of its pool's
\* history, evicting the oldest sample, and no other, once 300 are held; the
\* histories of the other pools do not change.
C11_HistoryBounded ==
    /\ [](\A p \in Pools :
            /\ Len(get_iostat_history(p)) <= 300
            /\ \A i \in 1..(Len(get_iostat_history(p)) - 1) :
                   get_iostat_history(p)[i].n < get_iostat_history(p)[i + 1].n)
    /\ [][Stored => \E p \in Pools :
                      /\ AppendedTo(p)
                      /\ \A q \in Pools \ {p} :
                            DictGet(iostat_history', q, <<>>) = get_iostat_history(q)]_vars

\* C11 witness: 305 samples went to one pool; its history holds 300 of them,
\* the five oldest are gone and the newest is the last
C11_Witness ==
    LET h == get_iostat_history(SustainedPool)
    IN  /\ nsamples = 305
        /\ Len(h) = 300
        /\ h[1].n = 6
        /\ h[300].n = 305

\* stop_pool_streams(p) is called in this step
KillCalled(p) == dPc = "idle" /\ dPc' # "idle" /\ dPool' = p

\* no subscriber of p is registered and no subprocess is tracked for p
NoActiveStream(p) == Registered(p) = {} /\ Tracked(p) = {}

\* the kill ran to its end within the step and changed nothing of the
\* subscribers, the tracked subprocesses, the channels, the processes or the
\* history
KillChangedNothing(p) ==
    /\ dPc' = "pkill1"
    /\ \A q \in Pools :
          /\ DictGet(active_ws', q, {}) = Registered(q)
          /\ DictGet(iostat_procs', q, {}) = Tracked(q)
          /\ DictGet(iostat_history', q, <<>>) = get_iostat_history(q)
    /\ wsChan' = wsChan
    /\ proc' = proc

\* C12 as stated: a kill of a pool without active stream leaves all registry
\* state unchanged, the being-destroyed set included.
C12_KillNoStreamNoChange ==
    [][\A p \in Pools : (KillCalled(p) /\ NoActiveStream(p)) =>
            (KillChangedNothing(p) /\ destroying_pools' = destroying_pools)]_vars

\* C12 amended: a kill of a pool without active stream raises nothing and
\* returns without suspending; it leaves subscribers, tracked subprocesses
\* and history unchanged and marks the pool being-destroyed; a repeated kill
\* changes nothing at all.
C12_KillNoStreamMarksOnly ==
    [][\A p \in Pools : (KillCalled(p) /\ NoActiveStream(p)) =>
            /\ KillChangedNothing(p)
            /\ destroying_pools' = destroying_pools \cup {p}
            /\ p \in destroying_pools => destroying_pools' = destroying_pools]_vars

\* C12 witness: a second kill of the same pool, with nothing registered or
\* tracked when it was called, has returned
C12_Witness ==
    /\ dRuns = 2
    /\ dPc = "pkill1"
    /\ killWs = {} /\ killProcs = {}
    /\ dLog = <<>>
    /\ destroying_pools = {dPool}

\* a step of an iostat or event stream
StreamStep == streamVars' # streamVars \/ eventVars' # eventVars

\* C13: no step of an iostat or event stream takes or gives back an admission
\* slot; the slots in use are exactly those of the short calls in progress,
\* so with streams open 4 short calls run at once, and a short call is made
\* to wait only when 4 short calls hold the slots.
C13_StreamsTakeNoSlot ==
    /\ [](zfs_semaphore = 4 - Cardinality(SlotHolders))
    /\ [][StreamStep => (zfs_semaphore' = zfs_semaphore /\ callPc' = callPc)]_vars
    /\ [][\A c \in Callers : (callPc[c] = "idle" /\ callPc'[c] = "wait")
                                  => Cardinality(SlotHolders) = 4]_vars

\* C13 witness: an iostat stream and an event stream are running, 4 short
\* calls run their subprocesses and a fifth waits for a slot
C13_Witness ==
    /\ \E w \in W : proc[w] = "running" /\ wsPc[w] \in {"reading", "sending"}
    /\ \E e \in E : evProc[e] = "running" /\ evPc[e] \in {"reading", "sending"}
    /\ Cardinality({c \in Callers : callPc[c] = "communicate"}) = 4
    /\ \E c \in Callers : callPc[c] = "wait"

\* the executable of the call of c is found missing in this step: the call
\* leaves its spawn, neither cancelled nor with another error of the spawn
NotFoundStep(c) ==
    /\ callPc[c] = "spawn"
    /\ callPc'[c] = "idle"
    /\ cancels' = cancels
    /\ lastRet' # Raised(c, "OSError")

\* C14: when the executable of a run_cmd call is not found the call raises
\* nothing and returns empty stdout, the stderr "<binary>: command not found"
\* and exit code 127; its slot is given back and no subprocess was started.
C14_NotFoundIsSynthetic ==
    [][\A c \in Callers : NotFoundStep(c) =>
            /\ lastRet'.kind = "return"
            /\ lastRet'.who = c
            /\ lastRet'.stdout = ""
            /\ lastRet'.stderr = <<Binary(c), ": command not found">>
            /\ lastRet'.rc = 127
            /\ zfs_semaphore' = zfs_semaphore + 1
            /\ RunCmdProcs' = RunCmdProcs]_vars

\* C14 witness: a run_cmd call has returned the synthetic result
C14_Witness ==
    /\ lastRet.kind = "return"
    /\ lastRet.who \in Callers
    /\ lastRet.rc = 127
    /\ lastRet.stdout = ""
    /\ callPc[lastRet.who] = "idle"

\* the destroy sequence spawns pkill or fuser, or hands a zfs command to
\* run_cmd, in this step
CommandIssued ==
    /\ dPc \in {"pkill1", "pkill2", "mountpoint", "fuser", "share1", "share2", "unmount", "lpkill"}
    /\ dPc' # dPc

\* C15: the destroy sequence issues a command or a process kill only for a
\* pool name that passes validate_pool_name, and a request with any other
\* name ends at once, nothing executed.
C15_ValidatedBeforeCommands ==
    /\ [][CommandIssued => validate_pool_name(Spelling(dPool))]_vars
    /\ [](~validate_pool_name(Spelling(dPool)) => dPc = "idle")

\* every position of the command that holds a value from the request comes
\* after an end-of-options marker
MarkerBeforeUser(cmd) ==
    \A i \in cmd.user : \E j \in 1..(i - 1) : cmd.argv[j] = "--"

\* C16: every zfs or zpool command the destroy sequence issues carries "--"
\* before the pool name.
C16_MarkerInDestroyCommands ==
    [][dPc' # dPc => \A cmd \in Issued(dPc, dPool) : MarkerBeforeUser(cmd)]_vars

\* parse_zfs_error has returned
Classified == clsOut # NoException

\* the rules whose pattern occurs in the stderr text
Hits == {i \in 1..Len(ERROR_PATTERNS) : Search(ERROR_PATTERNS[i], clsErr)}

FirstHit == CHOOSE i \in Hits : \A j \in Hits : i <= j

\* the phrases of the pattern table with the kind documented for each
Documented ==
    { [text |-> <<"d", "a", "t", "a", "s", "e", "t", " ", "d", "o", "e", "s", " ", "n", "o", "t", " ", "e", "x", "i", "s", "t">>,
       kind |-> "ZFSNotFoundError"],
      [text |-> <<"n", "o", " ", "s", "u", "c", "h", " ", "p", "o", "o", "l">>,
       kind |-> "ZFSNotFoundError"],
      [text |-> <<"C", "o", "u", "l", "d", " ", "n", "o", "t", " ", "f", "i", "n", "d">>,
       kind |-> "ZFSNotFoundError"],
      [text |-> <<"d", "o", "e", "s", " ", "n", "o", "t", " ", "e", "x", "i", "s", "t">>,
       kind |-> "ZFSNotFoundError"],
      [text |-> <<"a", "l", "r", "e", "a", "d", "y", " ", "e", "x", "i", "s", "t", "s">>,
       kind |-> "ZFSExistsError"],
      [text |-> <<"t", "a", "g", " ", "a", "l", "r", "e", "a", "d", "y", " ", "e", "x", "i", "s", "t", "s">>,
       kind |-> "ZFSExistsError"],
      [text |-> <<"d", "a", "t", "a", "s", "e", "t", " ", "i", "s", " ", "b", "u", "s", "y">>,
       kind |-> "ZFSBusyError"],
      [text |-> <<"i", "s", " ", "b", "u", "s", "y">>,
       kind |-> "ZFSBusyError"],
      [text |-> <<"h", "a", "s", " ", "d", "e", "p", "e", "n", "d", "e", "n", "t", " ", "c", "l", "o", "n", "e", "s">>,
       kind |-> "ZFSHasDependentsError"],
      [text |-> <<"h", "a", "s", " ", "c", "h", "i", "l", "d", "r", "e", "n">>,
       kind |-> "ZFSHasDependentsError"],
      [text |-> <<"s", "n", "a", "p", "s", "h", "o", "t", " ", "'", "x", "'", " ", "h", "a", "s", " ", "h", "o", "l", "d", "s">>,
       kind |-> "ZFSHasHoldsError"],
      [text |-> <<"p", "e", "r", "m", "i", "s", "s", "i", "o", "n", " ", "d", "e", "n", "i", "e", "d">>,
       kind |-> "ZFSPermissionError"],
      [text |-> <<"O", "p", "e", "r", "a", "t", "i", "o", "n", " ", "n", "o", "t", " ", "p", "e", "r", "m", "i", "t", "t", "e", "d">>,
       kind |-> "ZFSPermissionError"],
      [text |-> <<"i", "n", "v", "a", "l", "i", "d", " ", "p", "r", "o", "p", "e", "r", "t", "y">>,
       kind |-> "ZFSInvalidArgumentError"],
      [text |-> <<"b", "a", "d", " ", "p", "r", "o", "p", "e", "r", "t", "y", " ", "v", "a", "l", "u", "e">>,
       kind |-> "ZFSInvalidArgumentError"],
      [text |-> <<"i", "n", "v", "a", "l", "i", "d", " ", "v", "d", "e", "v", " ", "s", "p", "e", "c", "i", "f", "i", "c", "a", "t", "i", "o", "n">>,
       kind |-> "ZFSInvalidArgumentError"],
      [text |-> <<"i", "n", "v", "a", "l", "i", "d", " ", "o", "p", "t", "i", "o", "n">>,
       kind |-> "ZFSInvalidArgumentError"],
      [text |-> <<"D", "A", "T", "A", "S", "E", "T", " ", "D", "O", "E", "S", " ", "N", "O", "T", " ", "E", "X", "I", "S", "T">>,
       kind |-> "ZFSNotFoundError"] }

\* C17: the exception is of the kind of the first rule, in table order, whose
\* pattern occurs in the stderr text, whatever its case and whatever rules
\* match after it; the kind is the same for every exit code, which is only
\* carried along; each documented phrase gives its documented kind.
C17_FirstMatchWins ==
    Classified =>
        /\ Hits # {} => clsOut.kind = ERROR_PATTERNS[FirstHit].kind
        /\ \A rc \in ExitCodes : parse_zfs_error(clsErr, rc).kind = clsOut.kind
        /\ clsOut.returncode = clsRc
        /\ clsOut.stderr = clsErr
        /\ \A d \in Documented : clsErr = d.text => clsOut.kind = d.kind
        /\ \A d \in Documented : Lower(clsErr) = Lower(d.text) => clsOut.kind = d.kind

\* C17 witness: a text in which two rules of different kinds match, the
\* later one a rule of its own kind, was given the kind of the earlier one
C17_Witness ==
    /\ Classified
    /\ \E i, j \in Hits : /\ i < j
                           /\ ERROR_PATTERNS[i].kind # ERROR_PATTERNS[j].kind
                           /\ clsOut.kind = ERROR_PATTERNS[i].kind
                           /\ i = FirstHit
    /\ clsRc = 2

\* C18: a stderr text that matches the has-holds pattern is classified
\* HasHolds, also when it contains a general phrase such as "does not exist".
C18_HasHoldsNeverMasked ==
    (Classified /\ Search(ERROR_PATTERNS[10], clsErr)) => clsOut.kind = "ZFSHasHoldsError"

\* C19: for empty or whitespace-only stderr the exception is the generic
\* ZFSError with the placeholder message, for every exit code.
C19_EmptyIsGeneric ==
    (Classified /\ \A i \in 1..Len(clsErr) : clsErr[i] \in Whitespace) =>
        /\ clsOut.kind = "ZFSError"
        /\ clsOut.message = <<"Unknown ZFS error">>
        /\ clsOut.returncode = clsRc

\* C19 witness: whitespace-only stderr with exit code 2 got the placeholder
C19_Witness ==
    /\ Classified
    /\ clsErr = <<" ", " ", " ", "\n">>
    /\ clsRc = 2
    /\ clsOut.kind = "ZFSError"
    /\ clsOut.message = UnknownMessage

\* C20 as stated: non-empty stderr that matches no rule gives the generic
\* ZFSError with the placeholder message.
C20_NoMatchPlaceholder ==
    (Classified /\ clsErr # <<>> /\ Hits = {}) =>
        (clsOut.kind = "ZFSError" /\ clsOut.message = <<"Unknown ZFS error">>)

\* C20 amended: stderr that matches no rule gives the generic ZFSError; when
\* it holds more than white space the message is the first line of the
\* stripped text, not the placeholder, which is kept for stderr that is empty
\* or white space only.
C20_NoMatchFirstLine ==
    (Classified /\ Hits = {}) =>
        /\ clsOut.kind = "ZFSError"
        /\ (\E i \in 1..Len(clsErr) : clsErr[i] \notin Whitespace) =>
              LET body == Strip(clsErr)
                  m == clsOut.message
              IN  /\ m # <<>>
                  /\ m # <<"Unknown ZFS error">>
                  /\ Len(m) <= Len(body)
                  /\ SubSeq(body, 1, Len(m)) = m
                  /\ \A i \in 1..Len(m) : m[i] # "\n"
                  /\ Len(m) < Len(body) => body[Len(m) + 1] = "\n"
                  /\ m[1] \notin Whitespace

\* C20 witness: an unknown text followed by a newline got the generic kind
\* with its first line as the message
C20_Witness ==
    /\ Classified
    /\ Hits = {}
    /\ clsOut.kind = "ZFSError"
    /\ clsOut.message = <<"u", "n", "k", "n", "o", "w", "n", " ", "e", "r", "r", "o", "r">>
    /\ Len(clsErr) > Len(clsOut.message)

\* ------------------------------------------------------- status parser claims
\* parse_status_output has returned
Parsed == statusPc = "done"

\* the device dicts made and the top-level list
Nodes == result.config.node
TopLevel == result.config.devices

\* the dicts a dict holds in its children list are all leaves
LeavesOnly(i) == \A k \in 1..Len(Nodes[i].children) : Nodes[Nodes[i].children[k]].children = <<>>

\* C21: the status text of a pool with one redundancy group of five disks
\* plus a log, a cache and a spare group parses to exactly one top-level
\* node, the pool, with four children: the redundancy group with five
\* leaves, the three others with one leaf each.
C21_OneRootFourGroups ==
    (Parsed /\ raw = RAIDZ2_WITH_SPECIAL_VDEVS) =>
        /\ Len(TopLevel) = 1
        /\ Nodes[TopLevel[1]].name = <<"datapool">>
        /\ LET groups == Nodes[TopLevel[1]].children
           IN  /\ Len(groups) = 4
               /\ \A g \in 1..4 :
                     /\ LeavesOnly(groups[g])
                     /\ Len(Nodes[groups[g]].children) =
                            IF Nodes[groups[g]].name = <<"raidz2-0">> THEN 5 ELSE 1
               /\ {Nodes[groups[g]].name : g \in 1..4} =
                     {<<"raidz2-0">>, <<"logs">>, <<"cache">>, <<"spares">>}

\* the rows the device dicts were made from, in order
Rows == DataLines(config_lines)

\* the k-th column of a row, "0" when the row has fewer columns
CounterColumn(row, k) == IF Len(Split(row)) >= k THEN Split(row)[k] ELSE <<"0">>

\* C22: every node of the device tree has a children list (empty for a
\* leaf, never absent) and all three error counters; a counter whose column
\* is missing from the row, as for a spare in AVAIL state, is "0".
C22_ChildrenAndCounters ==
    Parsed =>
        /\ Len(Nodes) = Len(Rows)
        /\ \A i \in 1..Len(Nodes) :
              /\ DOMAIN Nodes[i] = {"name", "state", "read_errors", "write_errors",
                                    "checksum_errors", "children"}
              /\ DOMAIN Nodes[i].children = 1..Len(Nodes[i].children)
              /\ (i = Len(Nodes) \/ Indent(Rows[i + 1]) <= Indent(Rows[i])) =>
                    Nodes[i].children = <<>>
              /\ Nodes[i].read_errors = CounterColumn(Rows[i], 3)
              /\ Nodes[i].write_errors = CounterColumn(Rows[i], 4)
              /\ Nodes[i].checksum_errors = CounterColumn(Rows[i], 5)
              /\ Nodes[i].read_errors # <<>>
              /\ Nodes[i].write_errors # <<>>
              /\ Nodes[i].checksum_errors # <<>>

\* C22 witness: the fixture is parsed and its spare, a row of a name and
\* the state AVAIL only, is a leaf with the three counters "0"
C22_Witness ==
    /\ Parsed
    /\ raw = RAIDZ2_WITH_SPECIAL_VDEVS
    /\ \E i \in 1..Len(Nodes) :
          /\ Split(Rows[i]) = <<<<"sdf">>, <<"AVAIL">>>>
          /\ Nodes[i].name = <<"sdf">>
          /\ Nodes[i].state = <<"AVAIL">>
          /\ Nodes[i].children = <<>>
          /\ Nodes[i].read_errors = <<"0">>
          /\ Nodes[i].write_errors = <<"0">>
          /\ Nodes[i].checksum_errors = <<"0">>

\* ------------------------------------------------------ destroy order claims
\* the positions of the destroy sequence up to its first destroy attempt, in
\* the order of the route
StepOrder ==
    <<"ws_close", "proc_wait", "pkill1", "pkill2", "sleep1", "mountpoint", "fuser",
      "share1", "share2", "unmount", "export", "sleep2", "import", "lpkill", "pause",
      "destroy">>

Pos(pc) == IF pc = "idle" THEN 0 ELSE CHOOSE i \in 1..Len(StepOrder) : StepOrder[i] = pc

\* the numbered step a position belongs to: 1 mark, 2 close subscribers and
\* kill their processes, 3 pattern kill, 4 mount-path kill, 5 sharing off and
\* forced unmount, 6 export, 7 re-import, 8 destroy attempt
StepOf(pc) ==
    CASE pc = "idle" -> 1
      [] pc \in {"ws_close", "proc_wait"} -> 2
      [] pc \in {"pkill1", "pkill2", "sleep1"} -> 3
      [] pc \in {"mountpoint", "fuser"} -> 4
      [] pc \in {"share1", "share2", "unmount"} -> 5
      [] pc \in {"export", "sleep2"} -> 6
      [] pc = "import" -> 7
      [] OTHER -> 8

\* C23: up to the first destroy attempt the steps of the destroy sequence
\* run one after the other in the fixed order mark, close subscribers and
\* kill their processes, pattern kill, mount-path kill, sharing off and
\* forced unmount, export, re-import, destroy: the sequence moves forward
\* only, never past a step, and the mark is set before step 2 does anything.
C23_StepsInOrder ==
    [][(dPc' # dPc /\ dLog = <<>> /\ dPc # "destroy") =>
          /\ Pos(dPc') > Pos(dPc)
          /\ dPool' \in destroying_pools'
          /\ IF dPc = "idle"
             THEN /\ dPool' \notin DOMAIN active_ws'
                  /\ dPc' \in {"ws_close", "proc_wait", "pkill1"}
                  /\ dPc' = "pkill1" =>
                        /\ \A w \in DictGet(active_ws, dPool', {}) : wsChan[w] # "open"
                        /\ \A w \in DictGet(iostat_procs, dPool', {}) : proc[w] = "exited"
             ELSE StepOf(dPc') \in {StepOf(dPc), StepOf(dPc) + 1}]_vars

\* C23 witness: the first destroy attempt is about to run, after a
\* subscriber of the pool was closed and its process killed
C23_Witness ==
    /\ dPc = "destroy"
    /\ dLog = <<>>
    /\ dAttempt = 0
    /\ dPool \in destroying_pools
    /\ killWs # {}
    /\ killProcs # {}

\* the subscribers and processes of the pool being destroyed
OfPool == {w \in W : wsPool[w] = dPool}

RunCmdHolders == {c \in Callers : callPc[c] \in {"spawn", "communicate"}}

\* slots held by a load_key / change_key call, which takes the semaphore
\* itself
KeyHeld == IF callPc[KeyCaller] \in {"spawn", "communicate"} THEN 1 ELSE 0

\* C25: a run_cmd call gives its slot back on every way out (exit code 0,
\* nonzero exit code, executable not found, another exception, cancellation),
\* so the slots held are exactly those of the run_cmd calls in progress
\* (next to the one a passphrase call may hold), and all 4 are free when no
\* call is in progress.
C25_SlotsMatchCalls ==
    /\ SEM_SLOTS - zfs_semaphore = Cardinality(RunCmdHolders) + KeyHeld
    /\ (\A c \in AllCallers : callPc[c] = "idle") => zfs_semaphore = SEM_SLOTS

\* C25 witness: a run_cmd call was cancelled while its subprocess ran, the
\* subprocess still runs, no call is in progress and the 4 slots are free
C25_Witness ==
    /\ lastRet.kind = "raise"
    /\ lastRet.exc = "CancelledError"
    /\ lastRet.who \in Callers
    /\ orphanCmd = 1
    /\ \A c \in AllCallers : callPc[c] = "idle"
    /\ zfs_semaphore = SEM_SLOTS

\* ------------------------------------------------------- destroy race claims
\* C26: once stop_pool_streams has returned for a pool, and for as long as
\* the pool is marked as being destroyed, no iostat process of that pool is
\* running, not even one of a subscriber that passed the check before the
\* mark and spawned afterwards.
C26_NoProcessAfterStop ==
    (StopReturned /\ dPool \in destroying_pools) =>
        \A w \in OfPool : proc[w] # "running"

\* C27: after a destroy sequence has ended in failure (every attempt
\* failed, the route raised the last error) the pool is no longer marked as
\* being destroyed, so that a later subscription to it is accepted.
C27_FailureClearsMark ==
    (dPc = "idle" /\ dResult = "raised") => ~IsDestroying(dPool)

\* C28: the sets stop_pool_streams and kill_iostat_procs iterate across
\* their awaits are detached from the registries: no WebSocket still to be
\* closed and no process still awaited can be reached through _active_ws or
\* _iostat_procs, and no step of a subscriber (registering, unregistering,
\* finalizing its generator) changes either set.
C28_KillIteratesDetachedSets ==
    [][/\ dPc' = "ws_close" => dWs' \cap DictGet(active_ws', dPool', {}) = {}
       /\ dPc' = "proc_wait" => dProcs' \cap DictGet(iostat_procs', dPool', {}) = {}
       /\ (dPc' = dPc /\ dPc \in {"ws_close", "proc_wait"}) =>
              (dWs' = dWs /\ dProcs' = dProcs)]_vars

\* C28 witness: kill_iostat_procs awaits the exit of a process it took out
\* of the registry while the generator of that process has run its own
\* finally, discard included, and awaits the same exit
C28_Witness ==
    /\ dPc = "proc_wait"
    /\ \E w \in dProcs : gen[w] = "waiting" /\ proc[w] = "signalled"

\* ------------------------------------------------------- device tree claims
\* the most recent row before row i with a strictly smaller indentation, 0
\* when there is none
ParentRow(i) ==
    LET above == {j \in 1..(i - 1) : Indent(Rows[j]) < Indent(Rows[i])}
    IN  IF above = {} THEN 0 ELSE CHOOSE j \in above : \A k \in above : k <= j

\* the members of a set of numbers in ascending order
RECURSIVE Ascending(_)
Ascending(S) ==
    IF S = {} THEN <<>>
    ELSE LET least == CHOOSE x \in S : \A y \in S : x <= y
         IN  <<least>> \o Ascending(S \ {least})

\* the pre-order walk of the subtrees rooted at the dicts of a list
RECURSIVE PreOrder(_)
PreOrder(ids) ==
    IF ids = <<>> THEN <<>>
    ELSE <<Head(ids)>> \o PreOrder(Nodes[Head(ids)].children) \o PreOrder(Tail(ids))

NextLine == SplitLines(raw)[lineNo + 1]

\* the narrative fields of the result
Narrative == {"status", "action", "scan", "errors"}

\* C30: in the loop of the status parser a non-blank line that starts with
\* no section label, read while the section is status, action, scan or
\* errors, is appended, trimmed and after one space, to the field of that
\* section; no other field, the section and the buffered config lines do not
\* change.  A blank line changes nothing at all.
C30_ContinuationAppends ==
    [][(statusPc = "loop" /\ lineNo' = lineNo + 1 /\ LabelOf(NextLine) = 0) =>
          /\ (Strip(NextLine) # <<>> /\ section \in Narrative) =>
                /\ result'[section] = result[section] \o <<" ">> \o Strip(NextLine)
                /\ \A f \in (DOMAIN result) \ {section} : result'[f] = result[f]
                /\ section' = section
                /\ config_lines' = config_lines
          /\ Strip(NextLine) = <<>> =>
                /\ result' = result
                /\ section' = section
                /\ config_lines' = config_lines]_vars

\* C30 witness: the fixture of the degraded pool is parsed; its status text
\* is the labelled third line followed by the two wrapped lines, its action
\* text the sixth line followed by the seventh, each joined by one space
C30_Witness ==
    /\ Parsed
    /\ raw = DEGRADED_POOL
    /\ LET L == SplitLines(raw)
       IN  /\ LabelOf(L[4]) = 0 /\ LabelOf(L[5]) = 0 /\ LabelOf(L[7]) = 0
           /\ result.status = AfterColon(L[3]) \o <<" ">> \o Strip(L[4]) \o <<" ">> \o Strip(L[5])
           /\ result.action = AfterColon(L[6]) \o <<" ">> \o Strip(L[7])
           /\ result.state = <<"DEGRADED">>

====
